---- MODULE Spec2Model ----
(***************************************************************************)
(* Arc<T> / Weak<T> of src/examples/06-03_optimization.rs: one control     *)
(* block (ArcData<T>) with its two atomic counters, operated on by several *)
(* threads.  Every atomic operation of the source is one step; a thread's  *)
(* position inside a multi-step method is pc[t].  Atomics are sequentially *)
(* consistent here (one interleaving of atomic steps).                     *)
(***************************************************************************)
EXTENDS Integers, FiniteSets

\* ---------------------------------------------------------------- bounds
\* Number of threads operating on the control block.
NThreads == 3
\* Largest number of handles (Arc + Weak, counting those being created).
MaxHandles == 3
\* Width in bits of the modelled usize.
Width == 3

Threads == 1..NThreads

\* usize::MAX and the modulus of usize arithmetic.
UsizeMax == (2 ^ Width) - 1
Modulus == UsizeMax + 1

\* fetch_add(1) / fetch_sub(1) store the wrapped result.
WrapAdd(x) == (x + 1) % Modulus
WrapSub(x) == (x + Modulus - 1) % Modulus

VARIABLES
    data_ref_count,   \* ArcData::data_ref_count
    alloc_ref_count,  \* ArcData::alloc_ref_count
    num_drops,        \* times the payload destructor (ManuallyDrop::drop) ran
    num_frees,        \* times the ArcData box was freed (Box::from_raw dropped)
    arcs,             \* arcs[t]: live Arc<T> handles owned by thread t
    weaks,            \* weaks[t]: live Weak<T> handles owned by thread t
    pc,               \* pc[t]: position of thread t inside a method
    n,                \* n[t]: the local `n` of downgrade / upgrade
    is_unique,        \* is_unique[t]: the local `is_unique` of get_mut
    via,              \* via[t]: owner of the handle thread t's method borrows
    aborted,          \* std::process::abort() was called
    panicked,         \* threads in which an assert! failed
    weaks_at_last,    \* live Weak handles when data_ref_count went 1 -> 0 (-1: not yet)
    weak_ever,        \* a Weak<T> handle has existed for this control block
    forgotten,        \* handles leaked with std::mem::forget: never dropped or used
    hb,               \* happens-before bookkeeping for the payload accesses of one thread
    twin              \* the other implementation's control block in a side-by-side run

vars == <<data_ref_count, alloc_ref_count, num_drops, num_frees, arcs, weaks,
          pc, n, is_unique, via, aborted, panicked, weaks_at_last, weak_ever,
          forgotten, hb, twin>>

RECURSIVE SumOver(_, _)
SumOver(f, S) ==
    IF S = {} THEN 0
    ELSE LET x == CHOOSE y \in S : TRUE IN f[x] + SumOver(f, S \ {x})

\* Live handles of each kind.
TotalArcs == SumOver(arcs, Threads)
TotalWeaks == SumOver(weaks, Threads)

\* Methods that are between their first atomic step and the creation of a handle.
Pending == Cardinality({t \in Threads : pc[t] \in {"dg_loop", "up_loop"}})

\* Room for one more handle within the model's bound.
Room == TotalArcs + TotalWeaks + Pending < MaxHandles

\* ------------------------------------------------------------ borrowing
\* &Arc / &Weak borrows held by other threads' running methods, and the
\* &mut Arc borrow of get_mut and of the view it returns.  A handle that is
\* borrowed cannot be dropped; a handle that is mutably borrowed cannot be
\* borrowed again.  Borrows by several threads may all be of one handle.
ArcsLent(u) ==
    IF \E t \in Threads \ {u} : pc[t] \in {"dg_loop", "reading"} /\ via[t] = u
    THEN 1 ELSE 0

ArcsExcl(u) ==
    IF pc[u] \in {"gm_load", "gm_store", "gm_none", "view"} THEN 1 ELSE 0

WeaksLent(u) ==
    IF \E t \in Threads \ {u} :
          pc[t] \in {"up_loop", "up_some", "up_none"} /\ via[t] = u
    THEN 1 ELSE 0

\* Thread t can take a shared borrow of an Arc / a Weak owned by u.
CanShareArc(t, u) ==
    /\ arcs[u] - ArcsExcl(u) >= 1
    /\ (t = u => pc[u] = "idle")

CanShareWeak(t, u) == weaks[u] >= 1

\* Thread u owns an Arc / a Weak nobody borrows (it can drop it or borrow it mutably).
CanOwnArc(u) == arcs[u] - ArcsLent(u) >= 1

CanOwnWeak(u) == weaks[u] - WeaksLent(u) >= 1

Running == ~aborted

Idle(t) == Running /\ pc[t] = "idle"

\* ------------------------------------------------------------ happens-before
\* The bookkeeping follows the payload accesses of one thread, hb.who:
\*   acc       : hb.who has accessed the payload;
\*   seen[t]   : every access hb.who made so far happens-before thread t's
\*               present position;
\*   pend[t]   : the same for the value t read last with Relaxed ordering
\*               inside the method it is in (what an Acquire fence picks up);
\*   data_msg, alloc_msg : the same for the release sequence that ends in
\*               the present value of data_ref_count, resp. alloc_ref_count.
\* It is switched off (and constant) unless a run starts with hb.on.
HbOff ==
    [on |-> FALSE, who |-> 1, acc |-> FALSE,
     seen |-> [t \in Threads |-> TRUE], pend |-> [t \in Threads |-> FALSE],
     data_msg |-> TRUE, alloc_msg |-> TRUE]

\* The bookkeeping started for the accesses of thread w: nothing accessed yet.
HbOn(w) == [HbOff EXCEPT !.on = TRUE, !.who = w]

\* The memory orderings the source passes to its atomic operations and fences.
CloneOrdering == "Relaxed"
ArcDropOrdering_Relaxed == "Relaxed"
ArcDropOrdering == "Release"
ArcDropFence == "Acquire"
WeakDropOrdering == "Release"
WeakDropFence == "Acquire"
GetMutCasOrdering == "Acquire"
GetMutLoadOrdering == "Relaxed"
GetMutStoreOrdering == "Release"
GetMutFence_Missing == "None"
GetMutFence == "Acquire"
DowngradeCasOrdering == "Acquire"
UpgradeCasOrdering == "Relaxed"

\* What the release sequence ending in the present value of counter x covers.
HbMsg(h, x) == IF x = "data" THEN h.data_msg ELSE h.alloc_msg

\* A load of counter x by thread t: with Acquire it synchronises with the
\* release sequence read; in any case a later Acquire fence of t will.
HbLoad(h, t, x, ord) ==
    IF ~h.on THEN h
    ELSE [h EXCEPT !.seen[t] = @ \/ (ord = "Acquire" /\ HbMsg(h, x)),
                   !.pend[t] = @ \/ HbMsg(h, x)]

\* A read-modify-write of counter x by thread t: it reads like a load and it
\* continues the release sequence it read, adding what t has seen when its
\* ordering is Release.
HbRMW(h, t, x, ord) ==
    IF ~h.on THEN h
    ELSE LET r == HbLoad(h, t, x, ord)
             msg == HbMsg(h, x) \/ (ord = "Release" /\ h.seen[t])
         IN  IF x = "data" THEN [r EXCEPT !.data_msg = msg]
             ELSE [r EXCEPT !.alloc_msg = msg]

\* A plain store to counter x by thread t: it starts a new release sequence,
\* which covers what t has seen when its ordering is Release and nothing else.
HbStore(h, t, x, ord) ==
    IF ~h.on THEN h
    ELSE LET msg == ord = "Release" /\ h.seen[t]
         IN  IF x = "data" THEN [h EXCEPT !.data_msg = msg]
             ELSE [h EXCEPT !.alloc_msg = msg]

\* fence(ord) by thread t: an Acquire fence synchronises with the release
\* sequence t read before it.
HbFence(h, t, ord) ==
    IF ~h.on THEN h
    ELSE [h EXCEPT !.seen[t] = @ \/ (ord = "Acquire" /\ h.pend[t])]

\* Thread t reads or writes the payload: if t is the thread followed, nothing
\* written to a counter so far and no other thread covers this access.
HbAccess(h, t) ==
    IF ~h.on \/ t # h.who THEN h
    ELSE [h EXCEPT !.acc = TRUE,
                   !.seen = [u \in Threads |-> u = t],
                   !.pend = [u \in Threads |-> FALSE],
                   !.data_msg = FALSE,
                   !.alloc_msg = FALSE]

\* Thread t ends a borrow of a handle owned by thread u: the owner gets the
\* handle back through whatever made the borrow end (the end of a scope, a
\* join), which orders t's use of it before the owner's next step.
HbLendBack(h, t, u) ==
    IF ~h.on THEN h
    ELSE [h EXCEPT !.seen[u] = @ \/ h.seen[t]]

\* Thread t leaves a method: what it read inside is not followed further.
HbEnd(h, t) ==
    IF ~h.on THEN h
    ELSE [h EXCEPT !.pend[t] = FALSE]

\* ------------------------------------------------------------ side-by-side runs
\* A control block as the variables hold it: the two counters, the times the
\* payload was destroyed and the box freed, and what is recorded about Weaks.
Block(d, a, nd, nf, wl, we) ==
    [data_ref_count |-> d, alloc_ref_count |-> a, num_drops |-> nd,
     num_frees |-> nf, weaks_at_last |-> wl, weak_ever |-> we]

\* The handles every thread owns.
Handles == [arcs |-> arcs, weaks |-> weaks]

\* One implementation runs alone: nothing is kept aside.  In a side-by-side
\* run of 06-03 ("opt") and 06-02 ("wp") the variables hold the control block
\* of twin.side and twin.block that of the other; twin.op is the operation
\* thread twin.who was asked to make, twin.before the handles when it was
\* asked, and twin.seen what the 06-03 run of it gave.
TwinOff ==
    [on |-> FALSE, side |-> "opt", op |-> "none", who |-> 1,
     block |-> Block(0, 0, 0, 0, -1, FALSE),
     before |-> [arcs |-> [t \in Threads |-> 0], weaks |-> [t \in Threads |-> 0]],
     seen |-> [result |-> "none",
               handles |-> [arcs |-> [t \in Threads |-> 0],
                            weaks |-> [t \in Threads |-> 0]]]]

\* ------------------------------------------------------------ Init
\* The state after `Arc::new(data)` in thread 1.
Init ==
    /\ data_ref_count = 1
    /\ alloc_ref_count = 1
    /\ num_drops = 0
    /\ num_frees = 0
    /\ arcs = [t \in Threads |-> IF t = 1 THEN 1 ELSE 0]
    /\ weaks = [t \in Threads |-> 0]
    /\ pc = [t \in Threads |-> "idle"]
    /\ n = [t \in Threads |-> 0]
    /\ is_unique = [t \in Threads |-> FALSE]
    /\ via = [t \in Threads |-> t]
    /\ aborted = FALSE
    /\ panicked = {}
    /\ weaks_at_last = -1
    /\ weak_ever = FALSE
    /\ forgotten = [arcs |-> 0, weaks |-> 0]
    /\ hb = HbOff
    /\ twin = TwinOff

\* ------------------------------------------------------------ Arc::clone
\* Faulty variant: `>=` in place of `>`.
CloneOverflows_OffByOne(old) == old >= UsizeMax \div 2

\* The pre-increment value that makes clone abort.
CloneOverflows(old) == old > UsizeMax \div 2

Arc_clone(t) ==
    /\ Idle(t)
    /\ Room
    /\ \E u \in Threads : CanShareArc(t, u)
    /\ data_ref_count' = WrapAdd(data_ref_count)
    /\ IF CloneOverflows(data_ref_count)
       THEN aborted' = TRUE /\ arcs' = arcs
       ELSE aborted' = aborted /\ arcs' = [arcs EXCEPT ![t] = @ + 1]
    /\ hb' = HbEnd(HbRMW(hb, t, "data", CloneOrdering), t)
    /\ UNCHANGED <<alloc_ref_count, num_drops, num_frees, weaks, pc, n,
                   is_unique, via, panicked, weaks_at_last,
                   weak_ever, forgotten>>
    /\ UNCHANGED twin

\* ------------------------------------------------------------ Weak::clone
Weak_clone(t) ==
    /\ Idle(t)
    /\ Room
    /\ \E u \in Threads : CanShareWeak(t, u)
    /\ alloc_ref_count' = WrapAdd(alloc_ref_count)
    /\ IF CloneOverflows(alloc_ref_count)
       THEN aborted' = TRUE /\ weaks' = weaks
       ELSE aborted' = aborted /\ weaks' = [weaks EXCEPT ![t] = @ + 1]
    /\ weak_ever' = TRUE
    /\ hb' = HbEnd(HbRMW(hb, t, "alloc", CloneOrdering), t)
    /\ UNCHANGED <<data_ref_count, num_drops, num_frees, arcs, pc, n,
                   is_unique, via, panicked, weaks_at_last, forgotten>>
    /\ UNCHANGED twin

\* ------------------------------------------------------------ Weak::drop
\* Faulty variant: the drop that leaves one unit behind also frees the box.
WeakDropIsLast_OffByOne(old) == old <= 2

\* Faulty variant: no drop notices that it released the last unit.
WeakDropIsLast_Never(old) == FALSE

\* `fetch_sub(1, Release) == 1`: this was the last unit of alloc_ref_count.
WeakDropIsLast(old) == old = 1

Weak_drop(t) ==
    /\ Idle(t)
    /\ CanOwnWeak(t)
    /\ weaks' = [weaks EXCEPT ![t] = @ - 1]
    /\ alloc_ref_count' = WrapSub(alloc_ref_count)
    /\ pc' = [pc EXCEPT ![t] =
                 IF WeakDropIsLast(alloc_ref_count) THEN "wd_free" ELSE "idle"]
    /\ hb' = LET h == HbRMW(hb, t, "alloc", WeakDropOrdering)
             IN  IF WeakDropIsLast(alloc_ref_count) THEN h ELSE HbEnd(h, t)
    /\ UNCHANGED <<data_ref_count, num_drops, num_frees, arcs, n, is_unique,
                   via, aborted, panicked, weaks_at_last,
                   weak_ever, forgotten>>
    /\ UNCHANGED twin

\* fence(Acquire); drop(Box::from_raw(ptr)) -- reached from Weak::drop itself
\* ("wd_free") or from the Weak that Arc::drop drops ("ad_free").
Box_free(t) ==
    /\ Running
    /\ pc[t] \in {"wd_free", "ad_free"}
    /\ num_frees' = num_frees + 1
    /\ pc' = [pc EXCEPT ![t] = "idle"]
    /\ hb' = HbEnd(HbFence(hb, t, WeakDropFence), t)
    /\ UNCHANGED <<data_ref_count, alloc_ref_count, num_drops, arcs, weaks, n,
                   is_unique, via, aborted, panicked, weaks_at_last,
                   weak_ever, forgotten>>
    /\ UNCHANGED twin

\* ------------------------------------------------------------ Arc::drop
\* Faulty variant: the drop that leaves one Arc behind also counts as the last.
ArcDropIsLast_OffByOne(old) == old <= 2

\* Faulty variant: no drop notices that it was the last.
ArcDropIsLast_Never(old) == FALSE

\* `fetch_sub(1, Release) == 1`
ArcDropIsLast(old) == old = 1

\* Faulty variant: the last drop releases the implicit weak unit with its
\* decrement, before the payload is destroyed.
Arc_drop_ReleasesUnitFirst(t) ==
    /\ Idle(t)
    /\ CanOwnArc(t)
    /\ arcs' = [arcs EXCEPT ![t] = @ - 1]
    /\ data_ref_count' = WrapSub(data_ref_count)
    /\ alloc_ref_count' = IF ArcDropIsLast(data_ref_count)
                          THEN WrapSub(alloc_ref_count) ELSE alloc_ref_count
    /\ pc' = [pc EXCEPT ![t] =
                 IF ArcDropIsLast(data_ref_count) THEN "ad_payload" ELSE "idle"]
    /\ weaks_at_last' =
          IF ArcDropIsLast(data_ref_count) THEN TotalWeaks ELSE weaks_at_last
    /\ hb' = LET h == HbRMW(hb, t, "data", ArcDropOrdering)
             IN  IF ArcDropIsLast(data_ref_count) THEN h ELSE HbEnd(h, t)
    /\ UNCHANGED <<num_drops, num_frees, weaks, n, is_unique,
                   via, aborted, panicked, weak_ever,
                   forgotten>>
    /\ UNCHANGED twin

Arc_drop(t) ==
    /\ Idle(t)
    /\ CanOwnArc(t)
    /\ arcs' = [arcs EXCEPT ![t] = @ - 1]
    /\ data_ref_count' = WrapSub(data_ref_count)
    /\ pc' = [pc EXCEPT ![t] =
                 IF ArcDropIsLast(data_ref_count) THEN "ad_payload" ELSE "idle"]
    /\ weaks_at_last' =
          IF ArcDropIsLast(data_ref_count) THEN TotalWeaks ELSE weaks_at_last
    /\ hb' = LET h == HbRMW(hb, t, "data", ArcDropOrdering)
             IN  IF ArcDropIsLast(data_ref_count) THEN h ELSE HbEnd(h, t)
    /\ UNCHANGED <<alloc_ref_count, num_drops, num_frees, weaks, n, is_unique,
                   via, aborted, panicked, weak_ever,
                   forgotten>>
    /\ UNCHANGED twin

\* fence(Acquire); ManuallyDrop::drop(&mut *self.data().data.get())
Arc_drop_Payload(t) ==
    /\ Running
    /\ pc[t] = "ad_payload"
    /\ num_drops' = num_drops + 1
    /\ pc' = [pc EXCEPT ![t] = "ad_weak"]
    /\ hb' = HbFence(hb, t, ArcDropFence)
    /\ UNCHANGED <<data_ref_count, alloc_ref_count, num_frees, arcs, weaks, n,
                   is_unique, via, aborted, panicked, weaks_at_last,
                   weak_ever, forgotten>>
    /\ UNCHANGED twin

\* drop(Weak { ptr: self.ptr }): Weak::drop of the implicit weak unit.
Arc_drop_Weak(t) ==
    /\ Running
    /\ pc[t] = "ad_weak"
    /\ alloc_ref_count' = WrapSub(alloc_ref_count)
    /\ pc' = [pc EXCEPT ![t] =
                 IF WeakDropIsLast(alloc_ref_count) THEN "ad_free" ELSE "idle"]
    /\ hb' = LET h == HbRMW(hb, t, "alloc", WeakDropOrdering)
             IN  IF WeakDropIsLast(alloc_ref_count) THEN h ELSE HbEnd(h, t)
    /\ UNCHANGED <<data_ref_count, num_drops, num_frees, arcs, weaks, n,
                   is_unique, via, aborted, panicked, weaks_at_last,
                   weak_ever, forgotten>>
    /\ UNCHANGED twin

\* ------------------------------------------------------------ Arc::downgrade
\* Faulty variant: downgrade keeps polling whatever it reads.
DowngradeSpins_Always(x) == TRUE

\* Faulty variant: downgrade does not recognise the sentinel.
DowngradeSpins_Never(x) == FALSE

\* `if n == usize::MAX` : an exclusivity check holds the counter.
DowngradeSpins(x) == x = UsizeMax

\* Faulty variant: downgrade increments whatever non-sentinel value it read.
DowngradeAssert_Missing(x) == TRUE

\* `assert!(n < usize::MAX - 1)`
DowngradeAssert(x) == x < UsizeMax - 1

\* Faulty variant: a plain store of n + 1 in place of the compare-and-swap.
DowngradeCasOk_Always(t) == TRUE

\* The compare_exchange_weak of downgrade finds the value it expects.
DowngradeCasOk(t) == alloc_ref_count = n[t]

\* let mut n = alloc_ref_count.load(Relaxed)
downgrade_Load(t) ==
    /\ Idle(t)
    /\ Room
    /\ \E u \in Threads :
          /\ CanShareArc(t, u)
          /\ via' = [via EXCEPT ![t] = u]
    /\ n' = [n EXCEPT ![t] = alloc_ref_count]
    /\ pc' = [pc EXCEPT ![t] = "dg_loop"]
    /\ hb' = HbLoad(hb, t, "alloc", "Relaxed")
    /\ UNCHANGED <<data_ref_count, alloc_ref_count, num_drops, num_frees, arcs,
                   weaks, is_unique, aborted, panicked, weaks_at_last,
                   weak_ever, forgotten>>
    /\ UNCHANGED twin

\* spin_loop(); n = alloc_ref_count.load(Relaxed); continue
downgrade_Spin(t) ==
    /\ Running
    /\ pc[t] = "dg_loop"
    /\ DowngradeSpins(n[t])
    /\ n' = [n EXCEPT ![t] = alloc_ref_count]
    /\ hb' = HbLoad(hb, t, "alloc", "Relaxed")
    /\ UNCHANGED <<data_ref_count, alloc_ref_count, num_drops, num_frees, arcs,
                   weaks, pc, is_unique, via, aborted, panicked,
                   weaks_at_last,
                   weak_ever, forgotten>>
    /\ UNCHANGED twin

\* assert!; compare_exchange_weak(n, n + 1): on success return the Weak, on
\* failure `n = e`.  compare_exchange_weak may fail though alloc_ref_count is
\* n (a spurious failure): then e is n and the step leaves every counter and
\* n as they were.
downgrade_CAS(t) ==
    /\ Running
    /\ pc[t] = "dg_loop"
    /\ ~DowngradeSpins(n[t])
    /\ IF ~DowngradeAssert(n[t])
       THEN /\ panicked' = panicked \cup {t}
            /\ pc' = [pc EXCEPT ![t] = "idle"]
            /\ n' = [n EXCEPT ![t] = 0]
            /\ via' = [via EXCEPT ![t] = t]
            /\ UNCHANGED <<alloc_ref_count, weaks, weak_ever>>
            /\ hb' = HbEnd(hb, t)
       ELSE \/ /\ DowngradeCasOk(t)
               /\ alloc_ref_count' = n[t] + 1
               /\ weaks' = [weaks EXCEPT ![t] = @ + 1]
               /\ weak_ever' = TRUE
               /\ pc' = [pc EXCEPT ![t] = "idle"]
               /\ n' = [n EXCEPT ![t] = 0]
               /\ via' = [via EXCEPT ![t] = t]
               /\ hb' = HbEnd(HbRMW(hb, t, "alloc", DowngradeCasOrdering), t)
               /\ UNCHANGED panicked
            \/ /\ n' = [n EXCEPT ![t] = alloc_ref_count]
               /\ hb' = HbLoad(hb, t, "alloc", "Relaxed")
               /\ UNCHANGED <<alloc_ref_count, weaks, weak_ever, pc, via, panicked>>
    /\ UNCHANGED <<data_ref_count, num_drops, num_frees, arcs, is_unique,
                   aborted, weaks_at_last, forgotten>>
    /\ UNCHANGED twin

\* ------------------------------------------------------------ Weak::upgrade
\* Faulty variant: upgrade does not look for a zero count.
UpgradeFails_Never(x) == FALSE

\* Faulty variant: upgrade also gives up when one Arc is left.
UpgradeFails_OffByOne(x) == x <= 1

\* `if n == 0 { return None; }`
UpgradeFails(x) == x = 0

\* `assert!(n < usize::MAX)`
UpgradeAssert(x) == x < UsizeMax

\* let mut n = data_ref_count.load(Relaxed)
upgrade_Load(t) ==
    /\ Idle(t)
    /\ Room
    /\ \E u \in Threads :
          /\ CanShareWeak(t, u)
          /\ via' = [via EXCEPT ![t] = u]
    /\ n' = [n EXCEPT ![t] = data_ref_count]
    /\ pc' = [pc EXCEPT ![t] = "up_loop"]
    /\ hb' = HbLoad(hb, t, "data", "Relaxed")
    /\ UNCHANGED <<data_ref_count, alloc_ref_count, num_drops, num_frees, arcs,
                   weaks, is_unique, aborted, panicked, weaks_at_last,
                   weak_ever, forgotten>>
    /\ UNCHANGED twin

\* Faulty variant: a plain store of n + 1 in place of the compare-and-swap.
UpgradeCasOk_Always(t) == TRUE

\* The compare_exchange_weak of upgrade finds the value it expects.
UpgradeCasOk(t) == data_ref_count = n[t]

\* return None
upgrade_None(t) ==
    /\ Running
    /\ pc[t] = "up_loop"
    /\ UpgradeFails(n[t])
    /\ pc' = [pc EXCEPT ![t] = "up_none"]
    /\ UNCHANGED <<data_ref_count, alloc_ref_count, num_drops, num_frees, arcs,
                   weaks, n, is_unique, via, aborted, panicked, weaks_at_last,
                   weak_ever, forgotten, hb>>
    /\ UNCHANGED twin

\* assert!; compare_exchange_weak(n, n + 1): on success return Some(Arc), on
\* failure `n = e`.  compare_exchange_weak may fail though data_ref_count is
\* n (a spurious failure): then e is n and the step leaves every counter and
\* n as they were.
upgrade_CAS(t) ==
    /\ Running
    /\ pc[t] = "up_loop"
    /\ ~UpgradeFails(n[t])
    /\ IF ~UpgradeAssert(n[t])
       THEN /\ panicked' = panicked \cup {t}
            /\ pc' = [pc EXCEPT ![t] = "idle"]
            /\ n' = [n EXCEPT ![t] = 0]
            /\ via' = [via EXCEPT ![t] = t]
            /\ UNCHANGED <<data_ref_count, arcs>>
            /\ hb' = HbEnd(hb, t)
       ELSE \/ /\ UpgradeCasOk(t)
               /\ data_ref_count' = n[t] + 1
               /\ arcs' = [arcs EXCEPT ![t] = @ + 1]
               /\ pc' = [pc EXCEPT ![t] = "up_some"]
               /\ hb' = HbRMW(hb, t, "data", UpgradeCasOrdering)
               /\ UNCHANGED <<n, via, panicked>>
            \/ /\ n' = [n EXCEPT ![t] = data_ref_count]
               /\ hb' = HbLoad(hb, t, "data", "Relaxed")
               /\ UNCHANGED <<data_ref_count, arcs, pc, via, panicked>>
    /\ UNCHANGED <<alloc_ref_count, num_drops, num_frees, weaks, is_unique,
                   aborted, weaks_at_last,
                   weak_ever, forgotten>>
    /\ UNCHANGED twin

\* The caller has received upgrade's Option<Arc<T>>.
upgrade_Return(t) ==
    /\ Running
    /\ pc[t] \in {"up_some", "up_none"}
    /\ pc' = [pc EXCEPT ![t] = "idle"]
    /\ n' = [n EXCEPT ![t] = 0]
    /\ via' = [via EXCEPT ![t] = t]
    /\ hb' = HbEnd(hb, t)
    /\ UNCHANGED <<data_ref_count, alloc_ref_count, num_drops, num_frees, arcs,
                   weaks, is_unique, aborted, panicked, weaks_at_last,
                   weak_ever, forgotten>>
    /\ UNCHANGED twin

\* ------------------------------------------------------------ Arc::get_mut
\* The value compare_exchange expects in alloc_ref_count.
GetMutExpected == 1

\* Faulty variant: the store puts back one unit too many.
GetMutRestore_OffByOne == GetMutExpected + 1

\* Faulty variant: the store leaves the sentinel in place.
GetMutRestore_Sentinel == UsizeMax

\* The value get_mut stores back into alloc_ref_count.
GetMutRestore == 1

\* Faulty variant: a swap in place of the compare_exchange.
GetMutCasOk_Always == TRUE

\* compare_exchange(1, usize::MAX, ..) finds the value it expects.
GetMutCasOk == alloc_ref_count = GetMutExpected

\* Faulty variant: any non-zero number of Arcs counts as unique.
IsUnique_Any(x) == x >= 1

\* `data_ref_count.load(Relaxed) == 1`
IsUnique(x) == x = 1

\* compare_exchange(1, usize::MAX, Acquire, Relaxed); `return None` if it failed
get_mut_CAS(t) ==
    /\ Idle(t)
    /\ CanOwnArc(t)
    /\ IF GetMutCasOk
       THEN /\ alloc_ref_count' = UsizeMax
            /\ pc' = [pc EXCEPT ![t] = "gm_load"]
       ELSE /\ alloc_ref_count' = alloc_ref_count
            /\ pc' = [pc EXCEPT ![t] = "gm_none"]
    /\ hb' = IF GetMutCasOk
             THEN HbRMW(hb, t, "alloc", GetMutCasOrdering)
             ELSE HbLoad(hb, t, "alloc", "Relaxed")
    /\ UNCHANGED <<data_ref_count, num_drops, num_frees, arcs, weaks, n,
                   is_unique, via, aborted, panicked, weaks_at_last,
                   weak_ever, forgotten>>
    /\ UNCHANGED twin

\* Faulty variant: get_mut waits, holding the sentinel, until it is the only Arc.
get_mut_Load_Waits(t) ==
    /\ Running
    /\ pc[t] = "gm_load"
    /\ IsUnique(data_ref_count)
    /\ is_unique' = [is_unique EXCEPT ![t] = TRUE]
    /\ pc' = [pc EXCEPT ![t] = "gm_store"]
    /\ UNCHANGED <<data_ref_count, alloc_ref_count, num_drops, num_frees, arcs,
                   weaks, n, via, aborted, panicked, weaks_at_last,
                   weak_ever, forgotten, hb>>
    /\ UNCHANGED twin

\* let is_unique = data_ref_count.load(Relaxed) == 1
get_mut_Load(t) ==
    /\ Running
    /\ pc[t] = "gm_load"
    /\ is_unique' = [is_unique EXCEPT ![t] = IsUnique(data_ref_count)]
    /\ pc' = [pc EXCEPT ![t] = "gm_store"]
    /\ hb' = HbLoad(hb, t, "data", GetMutLoadOrdering)
    /\ UNCHANGED <<data_ref_count, alloc_ref_count, num_drops, num_frees, arcs,
                   weaks, n, via, aborted, panicked, weaks_at_last,
                   weak_ever, forgotten>>
    /\ UNCHANGED twin

\* alloc_ref_count.store(1, Release); then `return None` if !is_unique, else
\* fence(Acquire) and return Some(&mut T)
get_mut_Store(t) ==
    /\ Running
    /\ pc[t] = "gm_store"
    /\ alloc_ref_count' = GetMutRestore
    /\ pc' = [pc EXCEPT ![t] = IF is_unique[t] THEN "view" ELSE "gm_none"]
    /\ is_unique' = [is_unique EXCEPT ![t] = FALSE]
    /\ hb' = LET h == HbStore(hb, t, "alloc", GetMutStoreOrdering)
             IN  IF is_unique[t] THEN HbFence(h, t, GetMutFence) ELSE h
    /\ UNCHANGED <<data_ref_count, num_drops, num_frees, arcs, weaks, n, via,
                   aborted, panicked, weaks_at_last,
                   weak_ever, forgotten>>
    /\ UNCHANGED twin

\* The caller has received None.
get_mut_None(t) ==
    /\ Running
    /\ pc[t] = "gm_none"
    /\ pc' = [pc EXCEPT ![t] = "idle"]
    /\ hb' = HbEnd(hb, t)
    /\ UNCHANGED <<data_ref_count, alloc_ref_count, num_drops, num_frees, arcs,
                   weaks, n, is_unique, via, aborted, panicked, weaks_at_last,
                   weak_ever, forgotten>>
    /\ UNCHANGED twin

\* The caller lets go of the &mut T it received.
view_End(t) ==
    /\ Running
    /\ pc[t] = "view"
    /\ pc' = [pc EXCEPT ![t] = "idle"]
    /\ hb' = HbEnd(HbAccess(hb, t), t)
    /\ UNCHANGED <<data_ref_count, alloc_ref_count, num_drops, num_frees, arcs,
                   weaks, n, is_unique, via, aborted, panicked, weaks_at_last,
                   weak_ever, forgotten>>
    /\ UNCHANGED twin

\* ------------------------------------------------------------ Deref
\* deref(&self) -> &T : the caller holds a shared view of the payload ...
deref(t) ==
    /\ Idle(t)
    /\ \E u \in Threads :
          /\ CanShareArc(t, u)
          /\ via' = [via EXCEPT ![t] = u]
    /\ pc' = [pc EXCEPT ![t] = "reading"]
    /\ hb' = HbAccess(hb, t)
    /\ UNCHANGED <<data_ref_count, alloc_ref_count, num_drops, num_frees, arcs,
                   weaks, n, is_unique, aborted, panicked, weaks_at_last,
                   weak_ever, forgotten>>
    /\ UNCHANGED twin

\* ... until it lets go of the &T.
deref_End(t) ==
    /\ Running
    /\ pc[t] = "reading"
    /\ pc' = [pc EXCEPT ![t] = "idle"]
    /\ via' = [via EXCEPT ![t] = t]
    /\ hb' = HbLendBack(HbAccess(hb, t), t, via[t])
    /\ UNCHANGED <<data_ref_count, alloc_ref_count, num_drops, num_frees, arcs,
                   weaks, n, is_unique, aborted, panicked, weaks_at_last,
                   weak_ever, forgotten>>
    /\ UNCHANGED twin

Next ==
    \/ \E t \in Threads : Arc_clone(t)
    \/ \E t \in Threads : Weak_clone(t)
    \/ \E t \in Threads : Weak_drop(t)
    \/ \E t \in Threads : Box_free(t)
    \/ \E t \in Threads : Arc_drop(t)
    \/ \E t \in Threads : Arc_drop_Payload(t)
    \/ \E t \in Threads : Arc_drop_Weak(t)
    \/ \E t \in Threads : downgrade_Load(t)
    \/ \E t \in Threads : downgrade_Spin(t)
    \/ \E t \in Threads : downgrade_CAS(t)
    \/ \E t \in Threads : upgrade_Load(t)
    \/ \E t \in Threads : upgrade_None(t)
    \/ \E t \in Threads : upgrade_CAS(t)
    \/ \E t \in Threads : upgrade_Return(t)
    \/ \E t \in Threads : get_mut_CAS(t)
    \/ \E t \in Threads : get_mut_Load(t)
    \/ \E t \in Threads : get_mut_Store(t)
    \/ \E t \in Threads : get_mut_None(t)
    \/ \E t \in Threads : view_End(t)
    \/ \E t \in Threads : deref(t)
    \/ \E t \in Threads : deref_End(t)

Spec == Init /\ [][Next]_vars

\* ------------------------------------------------------------ Arc::new
\* No control block exists yet.
Unallocated ==
    /\ data_ref_count = 0
    /\ alloc_ref_count = 0
    /\ num_drops = 0
    /\ num_frees = 0
    /\ TotalArcs = 0
    /\ TotalWeaks = 0
    /\ \A t \in Threads : pc[t] = "idle"

InitUnallocated ==
    /\ data_ref_count = 0
    /\ alloc_ref_count = 0
    /\ num_drops = 0
    /\ num_frees = 0
    /\ arcs = [t \in Threads |-> 0]
    /\ weaks = [t \in Threads |-> 0]
    /\ pc = [t \in Threads |-> "idle"]
    /\ n = [t \in Threads |-> 0]
    /\ is_unique = [t \in Threads |-> FALSE]
    /\ via = [t \in Threads |-> t]
    /\ aborted = FALSE
    /\ panicked = {}
    /\ weaks_at_last = -1
    /\ weak_ever = FALSE
    /\ forgotten = [arcs |-> 0, weaks |-> 0]
    /\ hb = HbOff
    /\ twin = TwinOff

\* Faulty variant: the block starts without the implicit unit of the Arcs.
Arc_new_NoImplicitUnit ==
    /\ Unallocated
    /\ data_ref_count' = 1
    /\ alloc_ref_count' = 0
    /\ arcs' = [arcs EXCEPT ![1] = 1]
    /\ UNCHANGED <<num_drops, num_frees, weaks, pc, n, is_unique, via, aborted,
                   panicked, weaks_at_last, weak_ever, forgotten, hb>>
    /\ UNCHANGED twin

\* `Arc::new(data)` in thread 1: Box::new(ArcData { data_ref_count: 1,
\* alloc_ref_count: 1, data }) and one Arc pointing to it.
Arc_new ==
    /\ Unallocated
    /\ data_ref_count' = 1
    /\ alloc_ref_count' = 1
    /\ arcs' = [arcs EXCEPT ![1] = 1]
    /\ UNCHANGED <<num_drops, num_frees, weaks, pc, n, is_unique, via, aborted,
                   panicked, weaks_at_last, weak_ever, forgotten, hb>>
    /\ UNCHANGED twin

NextNew == Arc_new \/ Next

SpecNew == InitUnallocated /\ [][NextNew]_vars

\* ------------------------------------------------------------ the single-counter Arc
\* 06-01_basic-reference-counter.rs and 06-01-02_updating.rs: ArcData has the
\* one counter ref_count and the value itself; there is no Weak.  The counter
\* is kept in the variable data_ref_count, alloc_ref_count stays 0 and weaks
\* stays empty.  06-01-02 has the text of 06-01 and adds get_mut.
ref_count == data_ref_count

\* The state after `Arc::new(data)` in thread 1.
InitBasic ==
    /\ data_ref_count = 1
    /\ alloc_ref_count = 0
    /\ num_drops = 0
    /\ num_frees = 0
    /\ arcs = [t \in Threads |-> IF t = 1 THEN 1 ELSE 0]
    /\ weaks = [t \in Threads |-> 0]
    /\ pc = [t \in Threads |-> "idle"]
    /\ n = [t \in Threads |-> 0]
    /\ is_unique = [t \in Threads |-> FALSE]
    /\ via = [t \in Threads |-> t]
    /\ aborted = FALSE
    /\ panicked = {}
    /\ weaks_at_last = -1
    /\ weak_ever = FALSE
    /\ forgotten = [arcs |-> 0, weaks |-> 0]
    /\ hb = HbOff
    /\ twin = TwinOff

\* `ref_count.fetch_add(1, Relaxed) > usize::MAX / 2` : abort, else the new Arc.
Basic_clone(t) ==
    /\ Idle(t)
    /\ Room
    /\ \E u \in Threads : CanShareArc(t, u)
    /\ data_ref_count' = WrapAdd(ref_count)
    /\ IF ref_count > UsizeMax \div 2
       THEN aborted' = TRUE /\ arcs' = arcs
       ELSE aborted' = aborted /\ arcs' = [arcs EXCEPT ![t] = @ + 1]
    /\ UNCHANGED <<alloc_ref_count, num_drops, num_frees, weaks, pc, n,
                   is_unique, via, panicked, weaks_at_last, weak_ever,
                   forgotten, hb>>
    /\ UNCHANGED twin

\* `ref_count.fetch_sub(1, Release) == 1`
BasicDropIsLast_OffByOne(old) == old = 2

BasicDropIsLast(old) == old = 1

Basic_drop(t) ==
    /\ Idle(t)
    /\ CanOwnArc(t)
    /\ arcs' = [arcs EXCEPT ![t] = @ - 1]
    /\ data_ref_count' = WrapSub(ref_count)
    /\ pc' = [pc EXCEPT ![t] =
                 IF BasicDropIsLast(ref_count) THEN "bd_box" ELSE "idle"]
    /\ UNCHANGED <<alloc_ref_count, num_drops, num_frees, weaks, n, is_unique,
                   via, aborted, panicked, weaks_at_last, weak_ever,
                   forgotten, hb>>
    /\ UNCHANGED twin

\* fence(Acquire); drop(Box::from_raw(..)) : the value is dropped and the
\* memory of the ArcData is freed.
Basic_drop_Box(t) ==
    /\ Running
    /\ pc[t] = "bd_box"
    /\ num_drops' = num_drops + 1
    /\ num_frees' = num_frees + 1
    /\ pc' = [pc EXCEPT ![t] = "idle"]
    /\ UNCHANGED <<data_ref_count, alloc_ref_count, arcs, weaks, n, is_unique,
                   via, aborted, panicked, weaks_at_last, weak_ever,
                   forgotten, hb>>
    /\ UNCHANGED twin

\* deref(&self) -> &T : the caller holds a shared view of the value ...
Basic_deref(t) ==
    /\ Idle(t)
    /\ \E u \in Threads :
          /\ CanShareArc(t, u)
          /\ via' = [via EXCEPT ![t] = u]
    /\ pc' = [pc EXCEPT ![t] = "reading"]
    /\ UNCHANGED <<data_ref_count, alloc_ref_count, num_drops, num_frees, arcs,
                   weaks, n, is_unique, aborted, panicked, weaks_at_last,
                   weak_ever, forgotten, hb>>
    /\ UNCHANGED twin

\* ... until it lets go of the &T.
Basic_deref_End(t) ==
    /\ Running
    /\ pc[t] = "reading"
    /\ pc' = [pc EXCEPT ![t] = "idle"]
    /\ via' = [via EXCEPT ![t] = t]
    /\ UNCHANGED <<data_ref_count, alloc_ref_count, num_drops, num_frees, arcs,
                   weaks, n, is_unique, aborted, panicked, weaks_at_last,
                   weak_ever, forgotten, hb>>
    /\ UNCHANGED twin

NextBasic ==
    \/ \E t \in Threads : Basic_clone(t)
    \/ \E t \in Threads : Basic_drop(t)
    \/ \E t \in Threads : Basic_drop_Box(t)
    \/ \E t \in Threads : Basic_deref(t)
    \/ \E t \in Threads : Basic_deref_End(t)

SpecBasic == InitBasic /\ [][NextBasic]_vars

\* 06-01-02_updating.rs, get_mut(arc: &mut Self) -> Option<&mut T>
\* `ref_count.load(Relaxed) == 1`
UpdatingIsOne_Always(x) == TRUE

UpdatingIsOne(x) == x = 1

\* The load; then fence(Acquire) and Some(&mut data), or None.
Updating_get_mut(t) ==
    /\ Idle(t)
    /\ CanOwnArc(t)
    /\ pc' = [pc EXCEPT ![t] =
                 IF UpdatingIsOne(ref_count) THEN "view" ELSE "gm_none"]
    /\ UNCHANGED <<data_ref_count, alloc_ref_count, num_drops, num_frees, arcs,
                   weaks, n, is_unique, via, aborted, panicked, weaks_at_last,
                   weak_ever, forgotten, hb>>
    /\ UNCHANGED twin

\* The caller has the None.
Updating_get_mut_None(t) ==
    /\ Running
    /\ pc[t] = "gm_none"
    /\ pc' = [pc EXCEPT ![t] = "idle"]
    /\ UNCHANGED <<data_ref_count, alloc_ref_count, num_drops, num_frees, arcs,
                   weaks, n, is_unique, via, aborted, panicked, weaks_at_last,
                   weak_ever, forgotten, hb>>
    /\ UNCHANGED twin

\* The caller lets go of the &mut T.
Updating_view_End(t) ==
    /\ Running
    /\ pc[t] = "view"
    /\ pc' = [pc EXCEPT ![t] = "idle"]
    /\ UNCHANGED <<data_ref_count, alloc_ref_count, num_drops, num_frees, arcs,
                   weaks, n, is_unique, via, aborted, panicked, weaks_at_last,
                   weak_ever, forgotten, hb>>
    /\ UNCHANGED twin

NextUpdating ==
    \/ NextBasic
    \/ \E t \in Threads : Updating_get_mut(t)
    \/ \E t \in Threads : Updating_get_mut_None(t)
    \/ \E t \in Threads : Updating_view_End(t)

SpecUpdating == InitBasic /\ [][NextUpdating]_vars

\* ------------------------------------------------------------ the unoptimised weak pointer
\* 06-02_weak-pointer.rs: an Arc holds a Weak, alloc_ref_count counts the Arcs
\* and the Weaks together, and the payload is an Option<T> that the last Arc
\* sets to None.  num_drops counts the assignments of None that dropped a T.
\* Methods that hold a Weak of their own or have raised data_ref_count for an
\* Arc not yet built are between two atomic steps.
WpMidClone == Cardinality({t \in Threads : pc[t] = "ac_data"})
WpMidUpgrade == Cardinality({t \in Threads : pc[t] = "up_clone"})
WpMidDrop == Cardinality({t \in Threads : pc[t] \in {"ad_payload", "ad_weak"}})
WpPending == Cardinality({t \in Threads : pc[t] \in {"ac_data", "up_loop", "up_clone"}})

WpRoom == TotalArcs + TotalWeaks + WpPending < MaxHandles

\* &Arc / &Weak borrows held by other threads' running methods.
WpArcsLent(u) ==
    IF \E t \in Threads \ {u} : pc[t] \in {"ac_data", "reading"} /\ via[t] = u
    THEN 1 ELSE 0

WpWeaksLent(u) ==
    IF \E t \in Threads \ {u} :
          pc[t] \in {"up_loop", "up_clone", "up_some", "up_none"} /\ via[t] = u
    THEN 1 ELSE 0

WpCanOwnArc(u) == arcs[u] - WpArcsLent(u) >= 1

WpCanOwnWeak(u) == weaks[u] - WpWeaksLent(u) >= 1

\* `fetch_add(1, Relaxed) > usize::MAX / 2`
WpCloneOverflows(old) == old > UsizeMax \div 2

\* impl Clone for Weak<T>
Wp_Weak_clone(t) ==
    /\ Idle(t)
    /\ WpRoom
    /\ \E u \in Threads : CanShareWeak(t, u)
    /\ alloc_ref_count' = WrapAdd(alloc_ref_count)
    /\ IF WpCloneOverflows(alloc_ref_count)
       THEN aborted' = TRUE /\ weaks' = weaks
       ELSE aborted' = aborted /\ weaks' = [weaks EXCEPT ![t] = @ + 1]
    /\ weak_ever' = TRUE
    /\ UNCHANGED <<data_ref_count, num_drops, num_frees, arcs, pc, n,
                   is_unique, via, panicked, weaks_at_last, forgotten, hb>>
    /\ UNCHANGED twin

\* Arc::downgrade(arc: &Self) -> Weak<T> : arc.weak.clone()
Wp_downgrade(t) ==
    /\ Idle(t)
    /\ WpRoom
    /\ \E u \in Threads : CanShareArc(t, u)
    /\ alloc_ref_count' = WrapAdd(alloc_ref_count)
    /\ IF WpCloneOverflows(alloc_ref_count)
       THEN aborted' = TRUE /\ weaks' = weaks
       ELSE aborted' = aborted /\ weaks' = [weaks EXCEPT ![t] = @ + 1]
    /\ weak_ever' = TRUE
    /\ UNCHANGED <<data_ref_count, num_drops, num_frees, arcs, pc, n,
                   is_unique, via, panicked, weaks_at_last, forgotten, hb>>
    /\ UNCHANGED twin

\* impl Clone for Arc<T>: `let weak = self.weak.clone();`
Wp_Arc_clone_Weak(t) ==
    /\ Idle(t)
    /\ WpRoom
    /\ \E u \in Threads :
          /\ CanShareArc(t, u)
          /\ via' = [via EXCEPT ![t] = u]
    /\ alloc_ref_count' = WrapAdd(alloc_ref_count)
    /\ IF WpCloneOverflows(alloc_ref_count)
       THEN aborted' = TRUE /\ pc' = pc
       ELSE aborted' = aborted /\ pc' = [pc EXCEPT ![t] = "ac_data"]
    /\ UNCHANGED <<data_ref_count, num_drops, num_frees, arcs, weaks, n,
                   is_unique, panicked, weaks_at_last, weak_ever, forgotten,
                   hb>>
    /\ UNCHANGED twin

\* ... `data_ref_count.fetch_add(1, Relaxed) > usize::MAX / 2`; Self { weak }
Wp_Arc_clone_Data(t) ==
    /\ Running
    /\ pc[t] = "ac_data"
    /\ data_ref_count' = WrapAdd(data_ref_count)
    /\ IF WpCloneOverflows(data_ref_count)
       THEN aborted' = TRUE /\ arcs' = arcs
       ELSE aborted' = aborted /\ arcs' = [arcs EXCEPT ![t] = @ + 1]
    /\ pc' = [pc EXCEPT ![t] = "idle"]
    /\ via' = [via EXCEPT ![t] = t]
    /\ UNCHANGED <<alloc_ref_count, num_drops, num_frees, weaks, n, is_unique,
                   panicked, weaks_at_last, weak_ever, forgotten, hb>>
    /\ UNCHANGED twin

\* impl Drop for Weak<T>: `alloc_ref_count.fetch_sub(1, Release) == 1`
WpWeakDropIsLast_OffByOne(old) == old = 2

WpWeakDropIsLast(old) == old = 1

Wp_Weak_drop(t) ==
    /\ Idle(t)
    /\ WpCanOwnWeak(t)
    /\ weaks' = [weaks EXCEPT ![t] = @ - 1]
    /\ alloc_ref_count' = WrapSub(alloc_ref_count)
    /\ pc' = [pc EXCEPT ![t] =
                 IF WpWeakDropIsLast(alloc_ref_count) THEN "wd_free" ELSE "idle"]
    /\ UNCHANGED <<data_ref_count, num_drops, num_frees, arcs, n, is_unique,
                   via, aborted, panicked, weaks_at_last, weak_ever,
                   forgotten, hb>>
    /\ UNCHANGED twin

\* fence(Acquire); drop(Box::from_raw(..))
Wp_Box_free(t) ==
    /\ Running
    /\ pc[t] = "wd_free"
    /\ num_frees' = num_frees + 1
    /\ pc' = [pc EXCEPT ![t] = "idle"]
    /\ UNCHANGED <<data_ref_count, alloc_ref_count, num_drops, arcs, weaks, n,
                   is_unique, via, aborted, panicked, weaks_at_last,
                   weak_ever, forgotten, hb>>
    /\ UNCHANGED twin

\* impl Drop for Arc<T>: `data_ref_count.fetch_sub(1, Release) == 1`
WpArcDropIsLast(old) == old = 1

Wp_Arc_drop(t) ==
    /\ Idle(t)
    /\ WpCanOwnArc(t)
    /\ arcs' = [arcs EXCEPT ![t] = @ - 1]
    /\ data_ref_count' = WrapSub(data_ref_count)
    /\ pc' = [pc EXCEPT ![t] =
                 IF WpArcDropIsLast(data_ref_count) THEN "ad_payload" ELSE "ad_weak"]
    /\ weaks_at_last' =
          IF WpArcDropIsLast(data_ref_count) THEN TotalWeaks ELSE weaks_at_last
    /\ UNCHANGED <<alloc_ref_count, num_drops, num_frees, weaks, n, is_unique,
                   via, aborted, panicked, weak_ever, forgotten, hb>>
    /\ UNCHANGED twin

\* fence(Acquire); (*ptr) = None
Wp_Arc_drop_Payload(t) ==
    /\ Running
    /\ pc[t] = "ad_payload"
    /\ num_drops' = num_drops + 1
    /\ pc' = [pc EXCEPT ![t] = "ad_weak"]
    /\ UNCHANGED <<data_ref_count, alloc_ref_count, num_frees, arcs, weaks, n,
                   is_unique, via, aborted, panicked, weaks_at_last,
                   weak_ever, forgotten, hb>>
    /\ UNCHANGED twin

\* The field `weak` of the Arc is dropped at the end of Arc::drop.
Wp_Arc_drop_Weak(t) ==
    /\ Running
    /\ pc[t] = "ad_weak"
    /\ alloc_ref_count' = WrapSub(alloc_ref_count)
    /\ pc' = [pc EXCEPT ![t] =
                 IF WpWeakDropIsLast(alloc_ref_count) THEN "wd_free" ELSE "idle"]
    /\ UNCHANGED <<data_ref_count, num_drops, num_frees, arcs, weaks, n,
                   is_unique, via, aborted, panicked, weaks_at_last,
                   weak_ever, forgotten, hb>>
    /\ UNCHANGED twin

\* Weak::upgrade(&self): `let mut n = data_ref_count.load(Relaxed);`
Wp_upgrade_Load(t) ==
    /\ Idle(t)
    /\ WpRoom
    /\ \E u \in Threads :
          /\ CanShareWeak(t, u)
          /\ via' = [via EXCEPT ![t] = u]
    /\ n' = [n EXCEPT ![t] = data_ref_count]
    /\ pc' = [pc EXCEPT ![t] = "up_loop"]
    /\ UNCHANGED <<data_ref_count, alloc_ref_count, num_drops, num_frees, arcs,
                   weaks, is_unique, aborted, panicked, weaks_at_last,
                   weak_ever, forgotten, hb>>
    /\ UNCHANGED twin

\* `if n == 0 { return None; }`
WpUpgradeFails_Never(x) == FALSE

WpUpgradeFails(x) == x = 0

Wp_upgrade_None(t) ==
    /\ Running
    /\ pc[t] = "up_loop"
    /\ WpUpgradeFails(n[t])
    /\ pc' = [pc EXCEPT ![t] = "up_none"]
    /\ UNCHANGED <<data_ref_count, alloc_ref_count, num_drops, num_frees, arcs,
                   weaks, n, is_unique, via, aborted, panicked, weaks_at_last,
                   weak_ever, forgotten, hb>>
    /\ UNCHANGED twin

\* `assert!(n < usize::MAX);` and compare_exchange_weak(n, n + 1, Relaxed, Relaxed);
\* it may fail though data_ref_count is n (a spurious failure), which changes
\* nothing.
Wp_upgrade_CAS(t) ==
    /\ Running
    /\ pc[t] = "up_loop"
    /\ ~WpUpgradeFails(n[t])
    /\ IF ~(n[t] < UsizeMax)
       THEN /\ panicked' = panicked \cup {t}
            /\ pc' = [pc EXCEPT ![t] = "idle"]
            /\ via' = [via EXCEPT ![t] = t]
            /\ n' = [n EXCEPT ![t] = 0]
            /\ UNCHANGED data_ref_count
       ELSE \/ /\ data_ref_count = n[t]
               /\ data_ref_count' = WrapAdd(n[t])
               /\ pc' = [pc EXCEPT ![t] = "up_clone"]
               /\ n' = [n EXCEPT ![t] = 0]
               /\ UNCHANGED <<via, panicked>>
            \/ /\ n' = [n EXCEPT ![t] = data_ref_count]
               /\ UNCHANGED <<data_ref_count, pc, via, panicked>>
    /\ UNCHANGED <<alloc_ref_count, num_drops, num_frees, arcs, weaks,
                   is_unique, aborted, weaks_at_last, weak_ever, forgotten,
                   hb>>
    /\ UNCHANGED twin

\* `return Some(Arc { weak: self.clone() });`
Wp_upgrade_Clone(t) ==
    /\ Running
    /\ pc[t] = "up_clone"
    /\ alloc_ref_count' = WrapAdd(alloc_ref_count)
    /\ IF WpCloneOverflows(alloc_ref_count)
       THEN aborted' = TRUE /\ arcs' = arcs
       ELSE aborted' = aborted /\ arcs' = [arcs EXCEPT ![t] = @ + 1]
    /\ pc' = [pc EXCEPT ![t] = "up_some"]
    /\ UNCHANGED <<data_ref_count, num_drops, num_frees, weaks, n, is_unique,
                   via, panicked, weaks_at_last, weak_ever, forgotten, hb>>
    /\ UNCHANGED twin

\* The caller has the Option<Arc<T>>.
Wp_upgrade_Return(t) ==
    /\ Running
    /\ pc[t] \in {"up_some", "up_none"}
    /\ pc' = [pc EXCEPT ![t] = "idle"]
    /\ via' = [via EXCEPT ![t] = t]
    /\ n' = [n EXCEPT ![t] = 0]
    /\ UNCHANGED <<data_ref_count, alloc_ref_count, num_drops, num_frees, arcs,
                   weaks, is_unique, aborted, panicked, weaks_at_last,
                   weak_ever, forgotten, hb>>
    /\ UNCHANGED twin

\* Arc::get_mut(arc: &mut Self): `alloc_ref_count.load(Relaxed) == 1`, then
\* fence(Acquire) and Some(data), or None.
Wp_get_mut(t) ==
    /\ Idle(t)
    /\ WpCanOwnArc(t)
    /\ pc' = [pc EXCEPT ![t] =
                 IF alloc_ref_count = 1 THEN "view" ELSE "gm_none"]
    /\ UNCHANGED <<data_ref_count, alloc_ref_count, num_drops, num_frees, arcs,
                   weaks, n, is_unique, via, aborted, panicked, weaks_at_last,
                   weak_ever, forgotten, hb>>
    /\ UNCHANGED twin

\* The caller has the None, or lets go of the &mut T.
Wp_get_mut_End(t) ==
    /\ Running
    /\ pc[t] \in {"gm_none", "view"}
    /\ pc' = [pc EXCEPT ![t] = "idle"]
    /\ UNCHANGED <<data_ref_count, alloc_ref_count, num_drops, num_frees, arcs,
                   weaks, n, is_unique, via, aborted, panicked, weaks_at_last,
                   weak_ever, forgotten, hb>>
    /\ UNCHANGED twin

\* impl Deref for Arc<T>: `(*ptr).as_ref().unwrap()` panics on None.
Wp_deref(t) ==
    /\ Idle(t)
    /\ \E u \in Threads :
          /\ CanShareArc(t, u)
          /\ via' = [via EXCEPT ![t] = IF num_drops = 0 THEN u ELSE t]
    /\ IF num_drops = 0
       THEN pc' = [pc EXCEPT ![t] = "reading"] /\ panicked' = panicked
       ELSE pc' = pc /\ panicked' = panicked \cup {t}
    /\ UNCHANGED <<data_ref_count, alloc_ref_count, num_drops, num_frees, arcs,
                   weaks, n, is_unique, aborted, weaks_at_last, weak_ever,
                   forgotten, hb>>
    /\ UNCHANGED twin

\* The caller lets go of the &T.
Wp_deref_End(t) ==
    /\ Running
    /\ pc[t] = "reading"
    /\ pc' = [pc EXCEPT ![t] = "idle"]
    /\ via' = [via EXCEPT ![t] = t]
    /\ UNCHANGED <<data_ref_count, alloc_ref_count, num_drops, num_frees, arcs,
                   weaks, n, is_unique, aborted, panicked, weaks_at_last,
                   weak_ever, forgotten, hb>>
    /\ UNCHANGED twin

NextWp ==
    \/ \E t \in Threads : Wp_Weak_clone(t)
    \/ \E t \in Threads : Wp_downgrade(t)
    \/ \E t \in Threads : Wp_Arc_clone_Weak(t)
    \/ \E t \in Threads : Wp_Arc_clone_Data(t)
    \/ \E t \in Threads : Wp_Weak_drop(t)
    \/ \E t \in Threads : Wp_Box_free(t)
    \/ \E t \in Threads : Wp_Arc_drop(t)
    \/ \E t \in Threads : Wp_Arc_drop_Payload(t)
    \/ \E t \in Threads : Wp_Arc_drop_Weak(t)
    \/ \E t \in Threads : Wp_upgrade_Load(t)
    \/ \E t \in Threads : Wp_upgrade_None(t)
    \/ \E t \in Threads : Wp_upgrade_CAS(t)
    \/ \E t \in Threads : Wp_upgrade_Clone(t)
    \/ \E t \in Threads : Wp_upgrade_Return(t)
    \/ \E t \in Threads : Wp_get_mut(t)
    \/ \E t \in Threads : Wp_get_mut_End(t)
    \/ \E t \in Threads : Wp_deref(t)
    \/ \E t \in Threads : Wp_deref_End(t)

\* The state after `Arc::new(data)` in thread 1 is that of Init: both counters
\* 1, the payload Some(data).
SpecWp == Init /\ [][NextWp]_vars

\* ------------------------------------------------------------ runs with happens-before
\* The state after Arc::new in thread 1, with the bookkeeping following the
\* payload accesses of any one thread.
InitHB ==
    /\ \E w \in Threads : hb = HbOn(w)
    /\ twin = TwinOff
    /\ data_ref_count = 1
    /\ alloc_ref_count = 1
    /\ num_drops = 0
    /\ num_frees = 0
    /\ arcs = [t \in Threads |-> IF t = 1 THEN 1 ELSE 0]
    /\ weaks = [t \in Threads |-> 0]
    /\ pc = [t \in Threads |-> "idle"]
    /\ n = [t \in Threads |-> 0]
    /\ is_unique = [t \in Threads |-> FALSE]
    /\ via = [t \in Threads |-> t]
    /\ aborted = FALSE
    /\ panicked = {}
    /\ weaks_at_last = -1
    /\ weak_ever = FALSE
    /\ forgotten = [arcs |-> 0, weaks |-> 0]

SpecHB == InitHB /\ [][Next]_vars

\* ------------------------------------------------------------ fair scheduling
\* A step of thread t that continues a method it is inside of.  Starting a
\* method, and ending a borrow of the payload (view_End, deref_End), are the
\* caller's choice and not the scheduler's.
Continue(t) ==
    \/ Box_free(t)
    \/ Arc_drop_Payload(t)
    \/ Arc_drop_Weak(t)
    \/ downgrade_Spin(t)
    \/ downgrade_CAS(t)
    \/ upgrade_None(t)
    \/ upgrade_CAS(t)
    \/ upgrade_Return(t)
    \/ get_mut_Load(t)
    \/ get_mut_Store(t)
    \/ get_mut_None(t)

\* Every thread that is inside a method keeps being scheduled.  A spurious
\* failure of compare_exchange_weak re-reads the value already in `n`, a step
\* that changes nothing: the fairness condition includes that the
\* compare-and-swap does not fail spuriously for ever.
FairSpec == Spec /\ \A t \in Threads : WF_vars(Continue(t))

\* ------------------------------------------------------------ counters near the limits
\* Handles leaked with std::mem::forget keep their unit in the counter for ever,
\* which is how a counter gets near usize::MAX with few live handles.  Thread 1
\* holds the one live Arc; the leaked handles were made by Arc::clone /
\* Weak::clone up to usize::MAX / 2 + 1 and by Weak::upgrade / Arc::downgrade
\* beyond (up to usize::MAX, resp. usize::MAX - 1).  The starts: no leak; both
\* counters at usize::MAX / 2; data_ref_count just above it; data_ref_count at
\* usize::MAX with alloc_ref_count at the value the assert! of downgrade guards.
ForgottenStarts ==
    { [arcs |-> 0, weaks |-> 0],
      [arcs |-> (UsizeMax \div 2) - 1, weaks |-> (UsizeMax \div 2) - 1],
      [arcs |-> UsizeMax \div 2, weaks |-> 0],
      [arcs |-> UsizeMax - 1, weaks |-> UsizeMax - 2] }

InitOverflow ==
    /\ forgotten \in ForgottenStarts
    /\ hb = HbOff
    /\ twin = TwinOff
    /\ data_ref_count = 1 + forgotten.arcs
    /\ alloc_ref_count = 1 + forgotten.weaks
    /\ weak_ever = (forgotten.weaks > 0)
    /\ num_drops = 0
    /\ num_frees = 0
    /\ arcs = [t \in Threads |-> IF t = 1 THEN 1 ELSE 0]
    /\ weaks = [t \in Threads |-> 0]
    /\ pc = [t \in Threads |-> "idle"]
    /\ n = [t \in Threads |-> 0]
    /\ is_unique = [t \in Threads |-> FALSE]
    /\ via = [t \in Threads |-> t]
    /\ aborted = FALSE
    /\ panicked = {}
    /\ weaks_at_last = -1

SpecOverflow == InitOverflow /\ [][Next]_vars

\* ============================================================ properties

\* C1: the payload destructor runs at most once; it has run exactly once as
\* soon as no Arc is live and no Arc::drop is still on its way to it; and it
\* has not run, and is not about to run, while any Arc is live.
C1_PayloadDroppedOnce ==
    /\ num_drops <= 1
    /\ (TotalArcs > 0 =>
          num_drops = 0 /\ \A t \in Threads : pc[t] # "ad_payload")
    /\ ((TotalArcs = 0 /\ \A t \in Threads : pc[t] # "ad_payload") =>
          num_drops = 1)

\* The payload has been destroyed by a thread other than the one that
\* created the first Arc, after Arcs were held by several threads.
C1_Witness ==
    /\ num_drops = 1
    /\ TotalArcs = 0
    /\ \E t \in Threads \ {1} : pc[t] = "ad_weak"

\* C2: the box is freed at most once; it is (about to be) freed only when no
\* Arc and no Weak is live and the payload destructor has finished; and it has
\* been freed exactly once when every handle is dropped and every drop is done.
C2_FreedOnce ==
    /\ num_frees <= 1
    /\ ((num_frees >= 1 \/ \E t \in Threads : pc[t] \in {"wd_free", "ad_free"}) =>
          /\ TotalArcs = 0
          /\ TotalWeaks = 0
          /\ num_drops = 1
          /\ \A t \in Threads : pc[t] \notin {"ad_payload", "ad_weak"})
    /\ ((/\ TotalArcs = 0
         /\ TotalWeaks = 0
         /\ \A t \in Threads :
               pc[t] \notin {"ad_payload", "ad_weak", "wd_free", "ad_free"}) =>
          num_frees = 1)

\* The box has been freed by the drop of a Weak that outlived every Arc.
C2_Witness ==
    /\ num_frees = 1
    /\ weaks_at_last >= 1
    /\ \A t \in Threads : pc[t] = "idle"

\* C3: while any Arc is live (one returned by upgrade included) the payload
\* is not destroyed, nobody is about to destroy it, data_ref_count > 0 and the
\* box is not freed: every deref reads a valid payload.
C3_LiveArcValid ==
    (TotalArcs > 0 \/ \E t \in Threads : pc[t] \in {"reading", "view", "up_some"}) =>
        /\ num_drops = 0
        /\ num_frees = 0
        /\ data_ref_count > 0
        /\ \A t \in Threads : pc[t] \notin {"ad_payload", "wd_free", "ad_free"}

\* An upgrade has returned an Arc that is now the only one: the other Arcs
\* were dropped while the upgrade ran.
C3_Witness ==
    \E t \in Threads : pc[t] = "up_some" /\ TotalArcs = 1 /\ arcs[t] = 1

\* get_mut's condition: one Arc and no Weak.
Exclusive == TotalArcs = 1 /\ TotalWeaks = 0

\* C4: get_mut returns Some exactly when, at the instant of the check that
\* decides the call (the compare_exchange if it fails, else the load of
\* data_ref_count), one Arc and no Weak exist; otherwise it returns None.
C4_GetMutIff ==
    [][\A t \in Threads :
          /\ (pc[t] = "idle" /\ pc'[t] = "gm_none") => ~Exclusive
          /\ (pc[t] = "gm_load" /\ pc'[t] = "gm_store") =>
                (is_unique'[t] <=> Exclusive)
          /\ (pc[t] = "gm_store" /\ pc'[t] = "view") => is_unique[t]
          /\ (pc[t] = "gm_store" /\ pc'[t] = "gm_none") => ~is_unique[t]]_vars

\* get_mut has returned Some.
C4_Witness == \E t \in Threads : pc[t] = "view"

\* C5: while alloc_ref_count holds the sentinel no Weak is created and the
\* counter only goes back to 1; get_mut's compare_exchange succeeds only
\* when no Weak exists (a downgrade that completed before it makes it fail);
\* and at the moment a view is granted there is one Arc, no Weak and no
\* downgrade under way.
C5_NoGrantWithSiblings ==
    [][/\ (alloc_ref_count = UsizeMax =>
             weaks' = weaks /\ alloc_ref_count' \in {UsizeMax, 1})
       /\ \A t \in Threads :
             /\ (pc[t] = "idle" /\ pc'[t] = "gm_load") => TotalWeaks = 0
             /\ (pc[t] = "gm_store" /\ pc'[t] = "view") =>
                   /\ TotalArcs' = 1
                   /\ TotalWeaks' = 0
                   /\ \A u \in Threads : pc'[u] # "dg_loop"]_vars

\* A downgrade spins on the sentinel that a get_mut in another thread holds.
C5_Witness ==
    \E t, u \in Threads :
        /\ pc[t] \in {"gm_load", "gm_store"}
        /\ pc[u] = "dg_loop"
        /\ n[u] = UsizeMax

\* What creates a handle or a shared view of the payload.
Creates ==
    \E u \in Threads :
        \/ Arc_clone(u)
        \/ Weak_clone(u)
        \/ downgrade_Load(u)
        \/ upgrade_Load(u)
        \/ deref(u)

\* C6: while a thread holds the &mut T of get_mut, its Arc is the only
\* handle, the payload is alive, no other thread reads the payload or is
\* inside a method that creates a handle, and no such method can start.
C6_ExclusiveView ==
    \A t \in Threads :
        pc[t] = "view" =>
            /\ TotalArcs = 1
            /\ arcs[t] = 1
            /\ TotalWeaks = 0
            /\ num_drops = 0
            /\ \A u \in Threads \ {t} :
                  pc[u] \notin {"reading", "view", "dg_loop", "up_loop", "up_some"}
            /\ ~ENABLED Creates

\* A thread other than the creator of the first Arc holds the exclusive view.
C6_Witness == \E t \in Threads \ {1} : pc[t] = "view" /\ arcs[t] = 1

\* C7: once data_ref_count is 0 (or an upgrade has returned None) it stays 0,
\* no Arc appears, no upgrade returns Some and every upgrade that ends returns
\* None.
C7_UpgradeMonotonic ==
    [][(data_ref_count = 0 \/ \E t \in Threads : pc[t] = "up_none") =>
          /\ data_ref_count' = 0
          /\ TotalArcs' = 0
          /\ \A t \in Threads :
                /\ pc'[t] # "up_some"
                /\ (pc[t] = "up_loop" /\ pc'[t] # "up_loop") =>
                      pc'[t] = "up_none"]_vars

\* An upgrade has returned None after the payload was destroyed, and another
\* upgrade is still running.
C7_Witness ==
    \E t, u \in Threads :
        /\ pc[t] = "up_none"
        /\ pc[u] = "up_loop"
        /\ num_drops = 1

\* C8: an upgrade (of a Weak, all of which come from downgrade) returns None
\* only when no Arc is live; with an Arc live it returns Some, and the Arc it
\* returns is live and its payload not destroyed.
C8_RoundTrip ==
    \A t \in Threads :
        /\ pc[t] = "up_none" => TotalArcs = 0
        /\ pc[t] = "up_some" => arcs[t] >= 1 /\ num_drops = 0 /\ num_frees = 0

\* An upgrade run by a thread that borrowed another thread's Weak has
\* returned Some while the downgraded Arc is still live.
C8_Witness ==
    \E t \in Threads :
        /\ pc[t] = "up_some"
        /\ via[t] # t
        /\ weaks[via[t]] >= 1
        /\ arcs[via[t]] >= 1

\* C9 as stated: after the last Arc was dropped with k >= 1 Weaks live, the
\* payload is destroyed by that drop, that drop does not free the box, and
\* the box is freed by the drop of the last Weak and not while a Weak is live.
C9_AsStated ==
    weaks_at_last >= 1 =>
        /\ ((\A t \in Threads : pc[t] # "ad_payload") => num_drops = 1)
        /\ \A t \in Threads : pc[t] # "ad_free"
        /\ ((num_frees >= 1 \/ \E t \in Threads : pc[t] = "wd_free") =>
              TotalWeaks = 0)

\* C9 (amended): after the last Arc was dropped with k >= 1 Weaks live, the
\* payload is destroyed by that drop before it releases the implicit unit;
\* the box is not freed while a Weak is live; and that drop frees the box
\* only if every Weak was dropped before it released the implicit unit --
\* otherwise the drop of the last Weak frees it.
C9_LastArcDropWithWeaks ==
    weaks_at_last >= 1 =>
        /\ ((\A t \in Threads : pc[t] # "ad_payload") => num_drops = 1)
        /\ \A t \in Threads :
              pc[t] \in {"ad_free", "wd_free"} => TotalWeaks = 0 /\ num_drops = 1
        /\ (num_frees >= 1 => TotalWeaks = 0)
        /\ ((TotalWeaks >= 1 /\ \A t \in Threads : pc[t] \notin {"ad_payload", "ad_weak"})
              => alloc_ref_count = TotalWeaks)

\* The last Arc was dropped while Weaks were live, its drop has returned
\* without freeing, and the drop of the last Weak is about to free the box.
C9_Witness ==
    /\ weaks_at_last >= 1
    /\ num_drops = 1
    /\ num_frees = 0
    /\ \E t \in Threads : pc[t] = "wd_free"

\* No method call is in progress (views handed out may still be held).
Quiescent == \A t \in Threads : pc[t] \in {"idle", "view", "reading"}

C11_NoReversal ==
    [][/\ (data_ref_count = 0 => data_ref_count' = 0)
       /\ (num_drops >= 1 => num_drops' = num_drops)
       /\ (alloc_ref_count = 0 \/ num_frees >= 1) =>
             /\ data_ref_count' = data_ref_count
             /\ alloc_ref_count' = alloc_ref_count
             /\ num_drops' = num_drops
             /\ num_frees' >= num_frees]_vars

\* The block went through all three phases.
C11_Witness ==
    /\ data_ref_count = 0
    /\ alloc_ref_count = 0
    /\ num_drops = 1
    /\ num_frees = 1

\* C12 as stated: an Arc::drop that destroys the payload and also frees the
\* memory happens only when no Weak handle ever existed.
C12_AsStated ==
    \A t \in Threads : pc[t] = "ad_free" => ~weak_ever

\* C12: the Arc::drop that destroyed the payload also frees the memory exactly
\* when no Weak handle is live at the step in which it releases the implicit
\* unit; Weak handles may have existed before and been dropped.
C12_SameDropFrees ==
    [][\A t \in Threads :
          (pc[t] = "ad_weak" /\ pc'[t] # "ad_weak") =>
              (pc'[t] = "ad_free" <=> TotalWeaks = 0)]_vars

\* An Arc::drop is about to free the memory although a Weak handle existed.
C12_Witness ==
    \E t \in Threads : pc[t] = "ad_free" /\ weak_ever /\ num_drops = 1

\* Threads whose get_mut is between its successful compare_exchange and its store.
InSentinelWindow == {t \in Threads : pc[t] \in {"gm_load", "gm_store"}}

C14_DowngradeRespectsSentinel ==
    [][\A t \in Threads :
          pc[t] = "dg_loop" =>
              /\ n[t] = UsizeMax =>
                    /\ pc'[t] = "dg_loop"
                    /\ weaks'[t] = weaks[t]
                    /\ n'[t] \in {n[t], alloc_ref_count}
                    /\ n'[t] # n[t] => alloc_ref_count' = alloc_ref_count
              /\ weaks'[t] # weaks[t] =>
                    /\ weaks'[t] = weaks[t] + 1
                    /\ n[t] # UsizeMax
                    /\ alloc_ref_count # UsizeMax
                    /\ alloc_ref_count = n[t]
                    /\ alloc_ref_count' = n[t] + 1
              /\ (alloc_ref_count = UsizeMax /\ (pc'[t] # pc[t] \/ n'[t] # n[t])) =>
                    /\ alloc_ref_count' = UsizeMax
                    /\ weaks' = weaks]_vars

\* A downgrade read the sentinel and the get_mut has since restored the counter.
C14_Witness ==
    \E t \in Threads :
        /\ pc[t] = "dg_loop"
        /\ n[t] = UsizeMax
        /\ alloc_ref_count = 1
        /\ InSentinelWindow = {}

\* C15: a step of Arc::clone (resp. Weak::clone) aborts the process if and only
\* if data_ref_count (resp. alloc_ref_count) before the increment is greater
\* than usize::MAX / 2; otherwise it yields one more handle; nothing else aborts.
C15_CloneAbortsIff ==
    [][/\ (data_ref_count' = WrapAdd(data_ref_count) /\ pc' = pc) =>
             /\ aborted' <=> data_ref_count > UsizeMax \div 2
             /\ ~aborted' => TotalArcs' = TotalArcs + 1
       /\ (alloc_ref_count' = WrapAdd(alloc_ref_count) /\ pc' = pc) =>
             /\ aborted' <=> alloc_ref_count > UsizeMax \div 2
             /\ ~aborted' => TotalWeaks' = TotalWeaks + 1
       /\ aborted' # aborted =>
             /\ pc' = pc
             /\ \/ data_ref_count' = WrapAdd(data_ref_count)
                \/ alloc_ref_count' = WrapAdd(alloc_ref_count)]_vars

\* A clone from usize::MAX / 2 succeeded and the next one aborted.
C15_Witness ==
    /\ aborted
    /\ forgotten.arcs = (UsizeMax \div 2) - 1
    /\ TotalArcs = 2
    /\ data_ref_count = (UsizeMax \div 2) + 2

\* C16 as stated: downgrade has the overflow policy of clone: a downgrade whose
\* observed alloc_ref_count is greater than usize::MAX / 2 aborts the process,
\* so no downgrade that yields a Weak incremented the counter from beyond
\* usize::MAX / 2.
C16_AsStated ==
    [][\A t \in Threads :
          pc[t] = "dg_loop" =>
              /\ weaks'[t] # weaks[t] => alloc_ref_count <= UsizeMax \div 2
              /\ (/\ n[t] # UsizeMax
                  /\ n[t] > UsizeMax \div 2
                  /\ pc'[t] # pc[t]) => aborted']_vars

\* C17 as stated: every increment that starts beyond the safe margin
\* usize::MAX / 2 aborts the process, so in a run that continues no increment
\* of data_ref_count or alloc_ref_count (clone, downgrade, upgrade) starts
\* beyond the margin and none wraps to a smaller value.
C17_AsStated ==
    [][Running' =>
          /\ data_ref_count' > data_ref_count =>
                data_ref_count <= UsizeMax \div 2
          /\ (alloc_ref_count' > alloc_ref_count /\ alloc_ref_count' # UsizeMax) =>
                alloc_ref_count <= UsizeMax \div 2
          /\ data_ref_count' # 0 \/ data_ref_count # UsizeMax
          /\ alloc_ref_count' # 0 \/ alloc_ref_count # UsizeMax]_vars

\* C18: a get_mut that returns None has changed nothing: none of its steps
\* changes data_ref_count, destroys or frees anything or touches a handle; on
\* the path without the sentinel alloc_ref_count is left alone and on the path
\* with it the store puts back the 1 the compare_exchange found.  At the return
\* the payload and the box are intact, the caller still owns its Arc, and
\* alloc_ref_count is again the number of Weak handles plus one unless another
\* get_mut holds it.
C18_NoneChangesNothing ==
    [][\A t \in Threads :
          /\ (pc'[t] \in {"gm_load", "gm_store", "gm_none"} /\ pc'[t] # pc[t]) =>
                /\ data_ref_count' = data_ref_count
                /\ num_drops' = num_drops
                /\ num_frees' = num_frees
                /\ arcs' = arcs
                /\ weaks' = weaks
                /\ pc'[t] = "gm_none" =>
                      alloc_ref_count' =
                          IF pc[t] = "idle" THEN alloc_ref_count ELSE 1
          /\ pc[t] = "gm_none" =>
                /\ num_drops = 0
                /\ num_frees = 0
                /\ arcs[t] >= 1
                /\ data_ref_count >= 1
                /\ InSentinelWindow = {} => alloc_ref_count = TotalWeaks + 1
                /\ pc'[t] # "gm_none" =>
                      /\ pc'[t] = "idle"
                      /\ data_ref_count' = data_ref_count
                      /\ alloc_ref_count' = alloc_ref_count
                      /\ arcs' = arcs]_vars

\* A get_mut that held the sentinel (a downgrade saw it) is returning None.
C18_Witness ==
    \E t, u \in Threads :
        /\ pc[t] = "gm_none"
        /\ TotalArcs >= 2
        /\ alloc_ref_count = 1
        /\ pc[u] = "dg_loop"
        /\ n[u] = UsizeMax

\* C19 as stated: under fair scheduling every downgrade call eventually returns.
C19_AsStated ==
    \A t \in Threads : (pc[t] = "dg_loop") ~> (pc[t] # "dg_loop")

\* C19: under fair scheduling a downgrade call returns unless alloc_ref_count
\* keeps being changed by other threads for ever: in every fair run either the
\* thread is outside downgrade again and again, or alloc_ref_count changes
\* again and again.
C19_DowngradeReturnsUnlessDisturbed ==
    \A t \in Threads :
        \/ []<>(pc[t] # "dg_loop")
        \/ []<><<alloc_ref_count' # alloc_ref_count>>_vars

\* A downgrade lost its compare-and-swap to a get_mut that took the sentinel.
C19_Witness ==
    \E t \in Threads :
        /\ pc[t] = "dg_loop"
        /\ n[t] = 1
        /\ alloc_ref_count = UsizeMax

\* Positions inside Arc::get_mut, Arc::drop and Weak::drop, and for each the
\* largest number of steps the method still takes from there.
StepsLeft(p) ==
    CASE p = "gm_load" -> 3
      [] p = "gm_store" -> 2
      [] p = "gm_none" -> 1
      [] p = "ad_payload" -> 3
      [] p = "ad_weak" -> 2
      [] p = "ad_free" -> 1
      [] p = "wd_free" -> 1
      [] OTHER -> 0

\* C20: no operation other than downgrade waits.  Arc::clone and Weak::clone
\* are one step; Arc::drop, Weak::drop and get_mut, once begun, can take their
\* next step in every state whatever the other threads did, and every such
\* step brings them nearer to their end, which is at most three steps away.
\* Whenever some thread is inside a method, some thread has a step that
\* changes the state.
C20_NoBlocking ==
    /\ \A t \in Threads :
          /\ ~ENABLED ((Arc_clone(t) \/ Weak_clone(t)) /\ pc'[t] # "idle")
          /\ (Running /\ StepsLeft(pc[t]) > 0) =>
                /\ ENABLED <<Continue(t)>>_vars
                /\ ~ENABLED (/\ Continue(t)
                             /\ StepsLeft(pc'[t]) >= StepsLeft(pc[t]))
    /\ (Running /\ \E t \in Threads : pc[t] \notin {"idle", "view", "reading"}) =>
          \E t \in Threads : ENABLED <<Continue(t)>>_vars

\* A get_mut holds the sentinel with a second Arc alive and a downgrade polling.
C20_Witness ==
    \E t, u \in Threads :
        /\ pc[t] = "gm_load"
        /\ data_ref_count = 2
        /\ pc[u] = "dg_loop"
        /\ n[u] = UsizeMax

\* C21: Arc::new makes a control block with data_ref_count = 1 and
\* alloc_ref_count = 1, the payload constructed (not dropped, not freed), one
\* Arc and no Weak; and the state it makes is the one every other run starts in.
C21_NewBlock ==
    Unallocated =>
        /\ ENABLED Arc_new
        /\ ~ENABLED (/\ Arc_new
                     /\ ~(/\ data_ref_count' = 1
                          /\ alloc_ref_count' = 1
                          /\ num_drops' = 0
                          /\ num_frees' = 0
                          /\ TotalArcs' = 1
                          /\ TotalWeaks' = 0
                          /\ Init'))

\* The state right after Arc::new.
C21_Witness ==
    /\ data_ref_count = 1
    /\ alloc_ref_count = 1
    /\ num_drops = 0
    /\ num_frees = 0
    /\ arcs[1] = 1
    /\ TotalArcs = 1
    /\ TotalWeaks = 0
    /\ ~weak_ever
    /\ weaks_at_last = -1
    /\ \A t \in Threads : pc[t] = "idle"

\* C22: every payload access made through an Arc by any thread happens-before
\* the destruction of the payload: the thread that has destroyed it had, after
\* its Acquire fence, seen every access of the thread followed.
C22_AccessesBeforeDestruction ==
    \A t \in Threads :
        pc[t] \in {"ad_weak", "ad_free"} => hb.seen[t]

\* The last Arc is dropped by a thread other than the one that accessed the
\* payload, which dropped its own Arc before.
C22_Witness ==
    \E t \in Threads :
        /\ hb.on
        /\ hb.acc
        /\ t # hb.who
        /\ arcs[hb.who] = 0
        /\ pc[t] = "ad_weak"
        /\ hb.seen[t]

\* C23: when get_mut has granted the exclusive view, every payload access made
\* before by another thread (through an Arc since dropped, or through a Weak
\* upgraded and dropped) happens-before the use of the view.
C23_AccessesBeforeView ==
    \A t \in Threads : pc[t] = "view" => hb.seen[t]

\* The view is held by a thread other than the one that accessed the payload.
C23_Witness ==
    \E t \in Threads :
        /\ hb.on
        /\ hb.acc
        /\ t # hb.who
        /\ arcs[hb.who] = 0
        /\ weak_ever
        /\ pc[t] = "view"
        /\ hb.seen[t]

\* C24: in the single-counter Arc, between operations ref_count is the number
\* of live Arc handles; the value is neither dropped nor freed while an Arc is
\* live; it is dropped and freed at most once, together, only by the thread
\* whose drop took ref_count from 1 to 0, and that thread does drop it.
C24_BasicCounting ==
    /\ Running => ref_count = TotalArcs
    /\ TotalArcs > 0 => num_drops = 0 /\ num_frees = 0
    /\ num_drops = num_frees /\ num_drops <= 1
    /\ \A t \in Threads :
          /\ pc[t] = "bd_box" =>
                /\ ref_count = 0 /\ num_drops = 0
                /\ \A u \in Threads \ {t} : pc[u] # "bd_box"
                /\ ENABLED Basic_drop_Box(t)
          /\ ~ENABLED (/\ Basic_drop(t)
                       /\ (pc'[t] = "bd_box") # (ref_count = 1 /\ ref_count' = 0))
    /\ ~ENABLED (/\ NextBasic
                 /\ num_drops' # num_drops
                 /\ ~\E t \in Threads : pc[t] = "bd_box" /\ pc'[t] = "idle")
    /\ (TotalArcs = 0 /\ \A t \in Threads : pc[t] = "idle") =>
          num_drops = 1 /\ num_frees = 1

\* Every Arc is gone and the value has been dropped and freed.
C24_Witness ==
    /\ TotalArcs = 0
    /\ ref_count = 0
    /\ alloc_ref_count = 0
    /\ num_drops = 1
    /\ num_frees = 1
    /\ \A t \in Threads : pc[t] = "idle"

\* C25: in the single-counter Arc with get_mut, get_mut hands out the &mut T
\* exactly when it reads ref_count = 1 and returns None when it reads more;
\* while the &mut T is held the holder's Arc is the only one and no clone can
\* be made.
C25_GetMutOnlyWhenAlone ==
    \A t \in Threads :
        /\ ~ENABLED (/\ Updating_get_mut(t)
                     /\ \/ (pc'[t] = "view") # (ref_count = 1)
                        \/ (pc'[t] = "gm_none") # (ref_count > 1))
        /\ pc[t] = "view" =>
              /\ ref_count = 1
              /\ arcs[t] = 1
              /\ TotalArcs = 1
              /\ \A u \in Threads : ~ENABLED Basic_clone(u)

\* A thread that got its Arc by cloning holds the &mut T after the Arc it was
\* cloned from is gone.
C25_Witness ==
    \E t \in Threads \ {1} :
        /\ pc[t] = "view"
        /\ arcs[1] = 0
        /\ ref_count = 1

\* C26: in the unoptimised weak pointer, alloc_ref_count is the number of live
\* Arc and Weak handles (between operations: plus the Weak each running
\* Arc::clone and Arc::drop holds), the payload is set to None once, by the
\* Arc::drop that took data_ref_count to 0, after which no upgrade succeeds,
\* and the memory is freed once, by the drop that took alloc_ref_count to 0,
\* never while an Arc or a Weak is live.
C26_WeakPointerCounting ==
    /\ Running =>
          /\ alloc_ref_count = TotalArcs + TotalWeaks + WpMidClone + WpMidDrop
          /\ data_ref_count = TotalArcs + WpMidUpgrade
    /\ num_drops <= 1 /\ num_frees <= 1
    /\ num_drops = 1 => data_ref_count = 0
    /\ data_ref_count = 0 =>
          /\ num_drops = 1 \/ Cardinality({t \in Threads : pc[t] = "ad_payload"}) = 1
          /\ \A t \in Threads :
                /\ pc[t] \notin {"up_clone", "up_some"}
                /\ ~ENABLED (Wp_upgrade_CAS(t) /\ pc'[t] = "up_clone")
    /\ \A t \in Threads :
          /\ pc[t] = "ad_payload" => data_ref_count = 0 /\ num_drops = 0
          /\ pc[t] = "wd_free" => alloc_ref_count = 0 /\ num_frees = 0
    /\ num_frees = 1 => alloc_ref_count = 0 /\ num_drops = 1
    /\ alloc_ref_count = 0 =>
          /\ num_frees = 1 \/ Cardinality({t \in Threads : pc[t] = "wd_free"}) = 1
          /\ num_drops = 1
    /\ TotalArcs + TotalWeaks > 0 =>
          /\ num_frees = 0
          /\ alloc_ref_count > 0
    /\ TotalArcs > 0 => num_drops = 0 /\ data_ref_count > 0

\* A Weak outlived the last Arc; the payload was set to None and, after the
\* Weak was dropped too, the memory was freed.
C26_Witness ==
    /\ weaks_at_last >= 1
    /\ num_drops = 1
    /\ num_frees = 1
    /\ alloc_ref_count = 0
    /\ data_ref_count = 0
    /\ TotalArcs + TotalWeaks = 0
    /\ \A t \in Threads : pc[t] = "idle"

\* C27: in the drop of the last Arc the payload is destroyed before the
\* implicit weak unit is released: while the destruction is under way
\* alloc_ref_count still holds that unit beside the live Weaks, so no drop of
\* a Weak can be the last and the box is not freed, however many Weaks are
\* dropped meanwhile; the unit is released and the box freed only with the
\* payload destroyed.
C27_PayloadBeforeUnit ==
    \A t \in Threads :
        /\ pc[t] = "ad_payload" =>
              /\ num_drops = 0
              /\ num_frees = 0
              /\ alloc_ref_count = TotalWeaks + 1
              /\ \A u \in Threads :
                    /\ pc[u] \notin {"wd_free", "ad_free"}
                    /\ ~ENABLED (Weak_drop(u) /\ pc'[u] = "wd_free")
                    /\ ~ENABLED Box_free(u)
              /\ ~ENABLED Arc_drop_Weak(t)
        /\ pc[t] \in {"ad_weak", "ad_free"} => num_drops = 1
        /\ num_frees >= 1 => num_drops = 1

\* The payload of the last Arc is being destroyed and every Weak that was
\* live at its decrement has been dropped meanwhile.
C27_Witness ==
    \E t \in Threads :
        /\ pc[t] = "ad_payload"
        /\ weaks_at_last >= 1
        /\ TotalWeaks = 0
        /\ alloc_ref_count = 1
        /\ num_frees = 0

\* C28: an Arc::drop enters the payload destruction exactly when its decrement
\* took data_ref_count from 1 to 0; otherwise it is over with the decrement,
\* having changed neither the payload nor alloc_ref_count.  The payload is
\* destroyed and the implicit weak unit released only by that one thread.
C28_OnlyLastDropActs ==
    /\ [](\A t \in Threads :
            pc[t] \in {"ad_payload", "ad_weak"} =>
                /\ data_ref_count = 0
                /\ TotalArcs = 0
                /\ \A u \in Threads \ {t} :
                      pc[u] \notin {"ad_payload", "ad_weak", "ad_free"})
    /\ [][/\ \A t \in Threads :
               Arc_drop(t) =>
                   /\ alloc_ref_count' = alloc_ref_count
                   /\ num_drops' = num_drops
                   /\ num_frees' = num_frees
                   /\ IF data_ref_count = 1
                      THEN data_ref_count' = 0 /\ pc'[t] = "ad_payload"
                      ELSE data_ref_count' > 0 /\ pc'[t] = "idle"
          /\ num_drops' # num_drops =>
               \E t \in Threads : pc[t] = "ad_payload" /\ pc'[t] = "ad_weak"
          /\ \A t \in Threads :
               (pc[t] = "ad_weak" /\ pc'[t] # "ad_weak") =>
                   /\ alloc_ref_count' = alloc_ref_count - 1
                   /\ num_drops' = num_drops]_vars

\* The Arc::drop of thread 1 left an Arc behind and is over (the thread is
\* idle); the drop of the last Arc, by another thread, is at the payload.
C28_Witness ==
    \E t \in Threads \ {1} :
        /\ pc[t] = "ad_payload"
        /\ pc[1] = "idle"
        /\ arcs[1] = 0
        /\ alloc_ref_count >= 1
        /\ num_drops = 0

\* C29: of the steps of Weak::upgrade only the successful compare-and-swap
\* changes a counter or a handle: it raises data_ref_count by exactly 1 from
\* the non-zero value it read and leaves alloc_ref_count alone; the other
\* steps change neither counter.  With None returned the Weak used is live and
\* alloc_ref_count counts it.
C29_UpgradeFrame ==
    \A t \in Threads :
        /\ ~ENABLED (/\ \/ upgrade_Load(t)
                        \/ upgrade_None(t)
                        \/ upgrade_Return(t)
                     /\ ~(/\ data_ref_count' = data_ref_count
                          /\ alloc_ref_count' = alloc_ref_count
                          /\ arcs' = arcs
                          /\ weaks' = weaks
                          /\ num_drops' = num_drops
                          /\ num_frees' = num_frees))
        /\ ~ENABLED (/\ upgrade_CAS(t)
                     /\ ~(/\ alloc_ref_count' = alloc_ref_count
                          /\ weaks' = weaks
                          /\ num_drops' = num_drops
                          /\ num_frees' = num_frees
                          /\ IF pc'[t] = "up_some"
                             THEN /\ data_ref_count >= 1
                                  /\ data_ref_count' = data_ref_count + 1
                                  /\ arcs' = [arcs EXCEPT ![t] = @ + 1]
                             ELSE /\ data_ref_count' = data_ref_count
                                  /\ arcs' = arcs))
        /\ pc[t] = "up_some" => data_ref_count >= 1 /\ arcs[t] >= 1
        /\ pc[t] = "up_none" =>
              /\ weaks[via[t]] >= 1
              /\ alloc_ref_count # UsizeMax
              /\ alloc_ref_count >= TotalWeaks
              /\ num_frees = 0

\* An upgrade has returned None after the last Arc was dropped; the Weak it
\* was called on is live.
C29_Witness ==
    \E t \in Threads :
        /\ pc[t] = "up_none"
        /\ data_ref_count = 0
        /\ weaks[via[t]] >= 1
        /\ alloc_ref_count >= 1

\* C30: Arc::clone raises data_ref_count by exactly 1 and leaves
\* alloc_ref_count alone; Weak::clone and a returning Arc::downgrade raise
\* alloc_ref_count by exactly 1 from its real value (never from the sentinel)
\* and leave data_ref_count alone; and no increment or decrement is lost:
\* data_ref_count is the number of live Arcs and alloc_ref_count, outside
\* get_mut's sentinel window, the number of live Weaks plus the implicit unit.
C30_ExactIncrements ==
    /\ [][\A t \in Threads :
             /\ (Arc_clone(t) /\ ~aborted') =>
                   /\ data_ref_count' = data_ref_count + 1
                   /\ alloc_ref_count' = alloc_ref_count
                   /\ arcs' = [arcs EXCEPT ![t] = @ + 1]
                   /\ weaks' = weaks
             /\ (Weak_clone(t) /\ ~aborted') =>
                   /\ alloc_ref_count' = alloc_ref_count + 1
                   /\ alloc_ref_count # UsizeMax
                   /\ data_ref_count' = data_ref_count
                   /\ weaks' = [weaks EXCEPT ![t] = @ + 1]
                   /\ arcs' = arcs
             /\ (downgrade_Load(t) \/ downgrade_Spin(t)) =>
                   /\ alloc_ref_count' = alloc_ref_count
                   /\ data_ref_count' = data_ref_count
                   /\ arcs' = arcs
                   /\ weaks' = weaks
             /\ downgrade_CAS(t) =>
                   /\ data_ref_count' = data_ref_count
                   /\ arcs' = arcs
                   /\ IF weaks' # weaks
                      THEN /\ alloc_ref_count' = alloc_ref_count + 1
                           /\ alloc_ref_count # UsizeMax
                           /\ weaks' = [weaks EXCEPT ![t] = @ + 1]
                           /\ pc'[t] = "idle"
                      ELSE alloc_ref_count' = alloc_ref_count]_vars
    /\ [](Running =>
            /\ data_ref_count = TotalArcs
            /\ IF InSentinelWindow # {}
               THEN alloc_ref_count = UsizeMax /\ TotalWeaks = 0
               ELSE alloc_ref_count = TotalWeaks +
                       (IF \/ TotalArcs > 0
                           \/ \E t \in Threads : pc[t] \in {"ad_payload", "ad_weak"}
                        THEN 1 ELSE 0))

\* A downgrade has been counted while another one, which read
\* alloc_ref_count before it, is still before its compare-and-swap.
C30_Witness ==
    /\ data_ref_count = 1
    /\ alloc_ref_count = 2
    /\ TotalArcs = 1
    /\ TotalWeaks = 1
    /\ \E t \in Threads : pc[t] = "dg_loop" /\ n[t] = 1

\* C31: the sentinel is always released.  While alloc_ref_count is usize::MAX
\* exactly one thread is inside get_mut between its compare_exchange and its
\* store, its next step can be taken, the load leads to the store and the
\* store puts back 1; so under fair scheduling the sentinel is followed by 1.
\* With 1 put back, a downgrade that was spinning has a step that reads it.
C31_SentinelReleased ==
    /\ (alloc_ref_count = UsizeMax) ~> (alloc_ref_count = 1)
    /\ [](alloc_ref_count = UsizeMax =>
            /\ Cardinality(InSentinelWindow) = 1
            /\ \A t \in InSentinelWindow :
                  ENABLED (get_mut_Load(t) \/ get_mut_Store(t)))
    /\ [][\A t \in Threads :
             /\ (pc[t] = "gm_load" /\ pc'[t] # "gm_load") =>
                   pc'[t] = "gm_store" /\ alloc_ref_count' = UsizeMax
             /\ (pc[t] = "gm_store" /\ pc'[t] # "gm_store") =>
                   /\ alloc_ref_count = UsizeMax
                   /\ alloc_ref_count' = 1]_vars
    /\ [](\A u \in Threads :
            (pc[u] = "dg_loop" /\ alloc_ref_count # UsizeMax) =>
                IF n[u] = UsizeMax
                THEN ENABLED (downgrade_Spin(u) /\ n'[u] = alloc_ref_count)
                ELSE ENABLED downgrade_CAS(u))

\* get_mut has put back 1 and returned; a downgrade that read the sentinel is
\* still in its loop and can go on.
C31_Witness ==
    \E t, u \in Threads :
        /\ pc[t] = "idle"
        /\ pc[u] = "dg_loop"
        /\ n[u] = UsizeMax
        /\ alloc_ref_count = 1
        /\ ENABLED downgrade_Spin(u)

\* C32 as stated: an iteration of upgrade's loop retries only because
\* data_ref_count is no longer the value read: no failing compare-and-swap is
\* possible while data_ref_count is n.
C32_AsStated ==
    \A t \in Threads :
        ~ENABLED (/\ upgrade_CAS(t)
                  /\ pc'[t] = "up_loop"
                  /\ data_ref_count = n[t])

\* C32: upgrade's loop is lock-free.  Its compare-and-swap succeeds only on
\* the value read; a failure, whether data_ref_count was changed by another
\* thread or the compare_exchange_weak failed spuriously, changes no counter
\* and retries with the value it observed, so n changes only when
\* data_ref_count had been changed; and under fair scheduling (the
\* compare-and-swap not failing spuriously for ever) the call returns unless
\* data_ref_count keeps being changed for ever.
C32_UpgradeLockFree ==
    /\ [](\A t \in Threads :
            ~ENABLED (/\ upgrade_CAS(t)
                      /\ pc'[t] = "up_loop"
                      /\ ~(/\ n'[t] = data_ref_count
                           /\ data_ref_count' = data_ref_count
                           /\ alloc_ref_count' = alloc_ref_count
                           /\ arcs' = arcs
                           /\ weaks' = weaks)))
    /\ [][\A t \in Threads :
             /\ (pc[t] = "up_loop" /\ pc'[t] = "up_loop" /\ n'[t] # n[t]) =>
                   /\ data_ref_count # n[t]
                   /\ n'[t] = data_ref_count
             /\ (pc[t] = "up_loop" /\ pc'[t] = "up_some") =>
                   /\ data_ref_count = n[t]
                   /\ data_ref_count' = n[t] + 1]_vars
    /\ \A t \in Threads :
          \/ []<>(pc[t] # "up_loop")
          \/ []<><<data_ref_count' # data_ref_count>>_vars

\* An upgrade read 1 and the last Arc was dropped by another thread since:
\* its compare-and-swap can only fail, and the retry observes 0.
C32_Witness ==
    \E t \in Threads :
        /\ pc[t] = "up_loop"
        /\ n[t] = 1
        /\ data_ref_count = 0
        /\ weaks[via[t]] >= 1
        /\ ENABLED (upgrade_CAS(t) /\ n'[t] = 0 /\ pc'[t] = "up_loop")

\* C33: the store of 1 in get_mut loses no update.  While alloc_ref_count is
\* usize::MAX one thread holds the sentinel (it is between its compare_exchange
\* and its store) and no Weak exists; no step of another thread changes
\* alloc_ref_count: none of Weak::clone, Weak::drop, the drop of the implicit
\* unit, downgrade's or another get_mut's compare-and-swap can do so; the only
\* step that changes it is the holder's store, which finds usize::MAX.
C33_StoreLosesNothing ==
    /\ \A t \in Threads :
          pc[t] \in {"gm_load", "gm_store"} => alloc_ref_count = UsizeMax
    /\ alloc_ref_count = UsizeMax =>
          /\ Cardinality(InSentinelWindow) = 1
          /\ TotalWeaks = 0
          /\ \A u \in Threads :
                /\ ~ENABLED (/\ \/ Weak_clone(u)
                                \/ Weak_drop(u)
                                \/ Arc_drop_Weak(u)
                                \/ downgrade_CAS(u)
                                \/ get_mut_CAS(u)
                             /\ alloc_ref_count' # alloc_ref_count)
                /\ ~ENABLED (get_mut_CAS(u) /\ pc'[u] = "gm_load")
          /\ ~ENABLED (/\ Next
                       /\ alloc_ref_count' # alloc_ref_count
                       /\ ~\E t \in InSentinelWindow :
                             /\ pc[t] = "gm_store"
                             /\ pc'[t] \in {"view", "gm_none"}
                             /\ alloc_ref_count' = 1)

\* A get_mut holds the sentinel at its store while a downgrade that read 1
\* before is at its compare-and-swap, which can only fail.
C33_Witness ==
    \E t, v \in Threads :
        /\ pc[t] = "gm_store"
        /\ alloc_ref_count = UsizeMax
        /\ pc[v] = "dg_loop"
        /\ n[v] = 1
        /\ ENABLED downgrade_CAS(v)

\* The steps of thread t that go through the pointer to the ArcData
\* (Arc::data, Weak::data, the payload): every atomic operation on a counter,
\* every access to the payload and the free itself.  The remaining steps only
\* hand a result to the caller.
Touches(t) ==
    \/ Arc_clone(t)
    \/ Weak_clone(t)
    \/ Weak_drop(t)
    \/ Box_free(t)
    \/ Arc_drop(t)
    \/ Arc_drop_Payload(t)
    \/ Arc_drop_Weak(t)
    \/ downgrade_Load(t)
    \/ downgrade_Spin(t)
    \/ downgrade_CAS(t)
    \/ upgrade_Load(t)
    \/ upgrade_CAS(t)
    \/ get_mut_CAS(t)
    \/ get_mut_Load(t)
    \/ get_mut_Store(t)
    \/ deref(t)

\* C34: no use after free.  Once the box is freed no thread is inside a
\* method or holds a view of the payload, and no step that touches a counter
\* or the payload can be taken; and already when a thread is about to free the
\* box (its decrement took alloc_ref_count to 0) every other thread is outside
\* every method, holds no view and no handle, and can begin no operation, so
\* the later steps of every multi-step operation come before the free.
C34_NoUseAfterFree ==
    /\ num_frees >= 1 =>
          \A t \in Threads :
              /\ pc[t] = "idle"
              /\ arcs[t] = 0 /\ weaks[t] = 0
              /\ ~ENABLED Touches(t)
    /\ \A t \in Threads :
          pc[t] \in {"wd_free", "ad_free"} =>
              /\ num_frees = 0
              /\ alloc_ref_count = 0
              /\ \A u \in Threads \ {t} :
                    /\ pc[u] = "idle"
                    /\ ~ENABLED Touches(u)
              /\ TotalArcs = 0 /\ TotalWeaks = 0
    /\ \A t \in Threads :
          pc[t] \notin {"idle", "wd_free", "ad_free"} =>
              /\ num_frees = 0
              /\ \A u \in Threads : pc[u] \notin {"wd_free", "ad_free"}

\* Weak handles have existed, the last Arc::drop released the last unit and
\* freed the box itself, and nothing is left running.
C34_Witness ==
    /\ num_frees = 1
    /\ weak_ever
    /\ weaks_at_last = 0
    /\ panicked = {}
    /\ \A t \in Threads : pc[t] = "idle" /\ ~ENABLED Touches(t)

\* C35: no counter underflows.  Whenever an Arc::drop can take its fetch_sub
\* data_ref_count is not 0, and whenever a Weak::drop (or the drop of the
\* implicit unit in Arc::drop) can take its fetch_sub alloc_ref_count is
\* neither 0 nor the sentinel; no step takes a counter from 0 to usize::MAX.
C35_NoUnderflow ==
    /\ \A t \in Threads :
          /\ ENABLED Arc_drop(t) => data_ref_count >= 1
          /\ ENABLED Weak_drop(t) =>
                alloc_ref_count >= 1 /\ alloc_ref_count # UsizeMax
          /\ ENABLED Arc_drop_Weak(t) =>
                alloc_ref_count >= 1 /\ alloc_ref_count # UsizeMax
          /\ ~ENABLED (/\ \/ Arc_drop(t)
                          \/ Weak_drop(t)
                          \/ Arc_drop_Weak(t)
                       /\ \/ data_ref_count' > data_ref_count
                          \/ alloc_ref_count' > alloc_ref_count)
    /\ data_ref_count = 0 => ~ENABLED (Next /\ data_ref_count' # 0)
    /\ alloc_ref_count = 0 => ~ENABLED (Next /\ alloc_ref_count' # 0)

\* Both counters have come down to 0 through the drops of several handles,
\* the last decrement of alloc_ref_count made from 1.
C35_Witness ==
    /\ data_ref_count = 0
    /\ alloc_ref_count = 0
    /\ weaks_at_last >= 1
    /\ \E t \in Threads : pc[t] = "wd_free"

\* ------------------------------------------------------------ 06-03 beside 06-02
\* The same sequence of operations is given to both implementations.  Every
\* operation is run to its end on the control block of 06-03, then the handles
\* are put back as they were and it is run on the control block of 06-02; the
\* handles each run leaves and the value it returns (the pc it ends in:
\* "up_some", "up_none", "view", "gm_none") are what the caller observes.  One
\* operation runs at a time.
EqOps ==
    {"Arc_clone", "Weak_clone", "downgrade", "upgrade", "get_mut",
     "Arc_drop", "Weak_drop"}

\* The state after `Arc::new(data)` in thread 1, in both implementations.
InitEquiv ==
    /\ data_ref_count = 1
    /\ alloc_ref_count = 1
    /\ num_drops = 0
    /\ num_frees = 0
    /\ arcs = [t \in Threads |-> IF t = 1 THEN 1 ELSE 0]
    /\ weaks = [t \in Threads |-> 0]
    /\ pc = [t \in Threads |-> "idle"]
    /\ n = [t \in Threads |-> 0]
    /\ is_unique = [t \in Threads |-> FALSE]
    /\ via = [t \in Threads |-> t]
    /\ aborted = FALSE
    /\ panicked = {}
    /\ weaks_at_last = -1
    /\ weak_ever = FALSE
    /\ forgotten = [arcs |-> 0, weaks |-> 0]
    /\ hb = HbOff
    /\ twin = [TwinOff EXCEPT !.on = TRUE,
                              !.block = Block(1, 1, 0, 0, -1, FALSE)]

\* The first step of operation op by thread t in 06-03, resp. 06-02.
OptBegin(op, t) ==
    \/ op = "Arc_clone" /\ Arc_clone(t)
    \/ op = "Weak_clone" /\ Weak_clone(t)
    \/ op = "downgrade" /\ downgrade_Load(t)
    \/ op = "upgrade" /\ upgrade_Load(t)
    \/ op = "get_mut" /\ get_mut_CAS(t)
    \/ op = "Arc_drop" /\ Arc_drop(t)
    \/ op = "Weak_drop" /\ Weak_drop(t)

WpBegin(op, t) ==
    \/ op = "Arc_clone" /\ Wp_Arc_clone_Weak(t)
    \/ op = "Weak_clone" /\ Wp_Weak_clone(t)
    \/ op = "downgrade" /\ Wp_downgrade(t)
    \/ op = "upgrade" /\ Wp_upgrade_Load(t)
    \/ op = "get_mut" /\ Wp_get_mut(t)
    \/ op = "Arc_drop" /\ Wp_Arc_drop(t)
    \/ op = "Weak_drop" /\ Wp_Weak_drop(t)

\* The operation asked for has taken its first step.
EqStarted == pc[twin.who] # "idle" \/ Handles # twin.before

\* The operation asked for has returned to its caller.
EqFinished ==
    /\ twin.op # "none"
    /\ EqStarted
    /\ pc[twin.who] \in {"idle", "up_some", "up_none", "view", "gm_none"}

\* Implementation side is to take the first step of op in thread t.
EqBegins(side, op, t) ==
    /\ twin.on
    /\ twin.side = side
    /\ twin.op = op
    /\ twin.who = t
    /\ ~EqStarted

\* Implementation side is inside the operation asked for.
EqInside(side) ==
    /\ twin.on
    /\ twin.side = side
    /\ twin.op # "none"
    /\ ~EqFinished

\* The caller asks thread t for operation op, one that t's handles allow.
Eq_Ask(op, t) ==
    /\ twin.on
    /\ twin.side = "opt"
    /\ twin.op = "none"
    /\ ENABLED OptBegin(op, t) \/ ENABLED WpBegin(op, t)
    /\ twin' = [twin EXCEPT !.op = op, !.who = t, !.before = Handles]
    /\ UNCHANGED <<data_ref_count, alloc_ref_count, num_drops, num_frees, arcs,
                   weaks, pc, n, is_unique, via, aborted, panicked,
                   weaks_at_last, weak_ever, forgotten, hb>>

\* The variables take the control block kept aside, the block they held is
\* kept aside, and thread twin.who is back at its caller.
EqSwap ==
    /\ data_ref_count' = twin.block.data_ref_count
    /\ alloc_ref_count' = twin.block.alloc_ref_count
    /\ num_drops' = twin.block.num_drops
    /\ num_frees' = twin.block.num_frees
    /\ weaks_at_last' = twin.block.weaks_at_last
    /\ weak_ever' = twin.block.weak_ever
    /\ pc' = [pc EXCEPT ![twin.who] = "idle"]
    /\ n' = [n EXCEPT ![twin.who] = 0]
    /\ via' = [via EXCEPT ![twin.who] = twin.who]
    /\ UNCHANGED <<is_unique, aborted, panicked, forgotten, hb>>

\* 06-03 has returned: what it gave is noted, the handles are put back as
\* they were before the operation, and 06-02 is given the same operation.
Eq_Switch ==
    /\ twin.on
    /\ twin.side = "opt"
    /\ EqFinished
    /\ EqSwap
    /\ arcs' = twin.before.arcs
    /\ weaks' = twin.before.weaks
    /\ twin' = [twin EXCEPT
                   !.side = "wp",
                   !.block = Block(data_ref_count, alloc_ref_count, num_drops,
                                   num_frees, weaks_at_last, weak_ever),
                   !.seen = [result |-> pc[twin.who], handles |-> Handles]]

\* 06-02 has returned too: the caller goes on to the next operation.
Eq_Return ==
    /\ twin.on
    /\ twin.side = "wp"
    /\ EqFinished
    /\ EqSwap
    /\ UNCHANGED <<arcs, weaks>>
    /\ twin' = [twin EXCEPT
                   !.side = "opt",
                   !.op = "none",
                   !.who = TwinOff.who,
                   !.before = TwinOff.before,
                   !.seen = TwinOff.seen,
                   !.block = Block(data_ref_count, alloc_ref_count, num_drops,
                                   num_frees, weaks_at_last, weak_ever)]

NextEquiv ==
    \/ \E op \in EqOps, t \in Threads : Eq_Ask(op, t)
    \/ Eq_Switch
    \/ Eq_Return
    \/ \E t \in Threads : EqBegins("opt", "Arc_clone", t) /\ Arc_clone(t)
    \/ \E t \in Threads : EqBegins("opt", "Weak_clone", t) /\ Weak_clone(t)
    \/ \E t \in Threads : EqBegins("opt", "downgrade", t) /\ downgrade_Load(t)
    \/ \E t \in Threads : EqBegins("opt", "upgrade", t) /\ upgrade_Load(t)
    \/ \E t \in Threads : EqBegins("opt", "get_mut", t) /\ get_mut_CAS(t)
    \/ \E t \in Threads : EqBegins("opt", "Arc_drop", t) /\ Arc_drop(t)
    \/ \E t \in Threads : EqBegins("opt", "Weak_drop", t) /\ Weak_drop(t)
    \/ \E t \in Threads : EqInside("opt") /\ Box_free(t)
    \/ \E t \in Threads : EqInside("opt") /\ Arc_drop_Payload(t)
    \/ \E t \in Threads : EqInside("opt") /\ Arc_drop_Weak(t)
    \/ \E t \in Threads : EqInside("opt") /\ downgrade_CAS(t)
    \/ \E t \in Threads : EqInside("opt") /\ upgrade_None(t)
    \/ \E t \in Threads : EqInside("opt") /\ upgrade_CAS(t)
    \/ \E t \in Threads : EqInside("opt") /\ get_mut_Load(t)
    \/ \E t \in Threads : EqInside("opt") /\ get_mut_Store(t)
    \/ \E t \in Threads : EqBegins("wp", "Arc_clone", t) /\ Wp_Arc_clone_Weak(t)
    \/ \E t \in Threads : EqBegins("wp", "Weak_clone", t) /\ Wp_Weak_clone(t)
    \/ \E t \in Threads : EqBegins("wp", "downgrade", t) /\ Wp_downgrade(t)
    \/ \E t \in Threads : EqBegins("wp", "upgrade", t) /\ Wp_upgrade_Load(t)
    \/ \E t \in Threads : EqBegins("wp", "get_mut", t) /\ Wp_get_mut(t)
    \/ \E t \in Threads : EqBegins("wp", "Arc_drop", t) /\ Wp_Arc_drop(t)
    \/ \E t \in Threads : EqBegins("wp", "Weak_drop", t) /\ Wp_Weak_drop(t)
    \/ \E t \in Threads : EqInside("wp") /\ Wp_Arc_clone_Data(t)
    \/ \E t \in Threads : EqInside("wp") /\ Wp_Box_free(t)
    \/ \E t \in Threads : EqInside("wp") /\ Wp_Arc_drop_Payload(t)
    \/ \E t \in Threads : EqInside("wp") /\ Wp_Arc_drop_Weak(t)
    \/ \E t \in Threads : EqInside("wp") /\ Wp_upgrade_None(t)
    \/ \E t \in Threads : EqInside("wp") /\ Wp_upgrade_CAS(t)
    \/ \E t \in Threads : EqInside("wp") /\ Wp_upgrade_Clone(t)

SpecEquiv == InitEquiv /\ [][NextEquiv]_vars

\* C36: 06-03 and 06-02 are observationally equivalent.  Given the same
\* operation in the same state of the handles, both can make it, both end it
\* with the same return value (Some/None of upgrade and get_mut) and the same
\* handles, the payload has been destroyed in both or in neither and the box
\* freed in both or in neither; between operations data_ref_count is the
\* number of Arcs in both, alloc_ref_count of 06-03 is the number of Weaks
\* plus one if an Arc is live, and alloc_ref_count of 06-02 is the number of
\* Weaks plus the number of Arcs.  Nothing aborts or panics, and 06-03 never
\* finds the sentinel in downgrade.
C36_Equivalent ==
    /\ twin.on
    /\ ~aborted /\ panicked = {}
    /\ \A t \in Threads : ~ENABLED downgrade_Spin(t)
    /\ (twin.op # "none" /\ ~EqStarted) =>
          IF twin.side = "opt"
          THEN ENABLED OptBegin(twin.op, twin.who)
          ELSE ENABLED WpBegin(twin.op, twin.who)
    /\ (twin.side = "wp" /\ EqFinished) =>
          /\ pc[twin.who] = twin.seen.result
          /\ Handles = twin.seen.handles
          /\ num_drops = twin.block.num_drops
          /\ num_frees = twin.block.num_frees
    /\ (twin.side = "wp" /\ (~EqStarted \/ EqFinished)) =>
          /\ alloc_ref_count = TotalWeaks + TotalArcs
          /\ data_ref_count = TotalArcs
    /\ (twin.side = "opt" /\ (twin.op = "none" \/ EqFinished)) =>
          /\ alloc_ref_count = TotalWeaks + (IF TotalArcs > 0 THEN 1 ELSE 0)
          /\ data_ref_count = TotalArcs
    /\ twin.op = "none" =>
          /\ twin.block.alloc_ref_count = TotalWeaks + TotalArcs
          /\ twin.block.data_ref_count = TotalArcs
          /\ twin.block.num_drops = num_drops
          /\ twin.block.num_frees = num_frees
          /\ num_drops = (IF TotalArcs = 0 THEN 1 ELSE 0)
          /\ num_frees = (IF TotalArcs + TotalWeaks = 0 THEN 1 ELSE 0)

\* Both implementations have made the same upgrade and both returned
\* Some(Arc), with alloc_ref_count 3 in 06-02 and 2 in 06-03.
C36_Witness ==
    /\ twin.on
    /\ twin.side = "wp"
    /\ twin.op = "upgrade"
    /\ EqFinished
    /\ pc[twin.who] = "up_some"
    /\ twin.seen.result = "up_some"
    /\ alloc_ref_count = 3
    /\ twin.block.alloc_ref_count = 2

====
